---- MODULE Spec2Model ----
(***************************************************************************)
(* A model of the CGML card-game simulator: the zone/card state model and  *)
(* its primitives (state.py), the rules engine (engine.py) and the flow    *)
(* controller GameSimulator (simulator.py).                                *)
(*                                                                         *)
(* Python lists of cards are sequences (front = index 1); the list         *)
(* `players` is a function on 0..n-1, as Python indexes it.  A GameState   *)
(* object is the record held by the variable game_state.                   *)
(***************************************************************************)
EXTENDS Integers, Sequences, FiniteSets, TLC

VARIABLES
    cgml_definition,     \* the parsed definition handed to the constructor
    player_count,        \* GameSimulator.player_count
    game_state,          \* the GameState object (players, shared_zones, current_state)
    current_player_idx,  \* GameSimulator.current_player_idx
    phase_idx,           \* GameSimulator.phase_idx
    pc,                  \* where the program is: "setup", "loop", "done", "raised", "hung", "zones"
    setup_idx,           \* index of the next action of run_setup_phase's loop
    last                 \* what the last step did (observation only)

vars == <<cgml_definition, player_count, game_state, current_player_idx,
          phase_idx, pc, setup_idx, last>>

(***************************************************************************)
(* Bounds of the model.                                                    *)
(***************************************************************************)
MaxPlayers == 2
MaxCount == 3

(***************************************************************************)
(* Python values.                                                          *)
(***************************************************************************)
\* Python's None where a string is expected (of_deck, a missing phase).
PyNone == "<None>"

\* Zone.owner of a shared zone (None in the source).
NoOwner == -1

\* str(x) of an optional phase name: str(None) is the text "None".
PyStr(x) == IF x = PyNone THEN "None" ELSE x

Min(a, b) == IF a <= b THEN a ELSE b

\* int(part) on the path segments of the model: defined on decimal
\* integers, a ValueError (here: not in the domain) on anything else.
IntSegments == {"0", "1", "2", "3", "-1", "-2", "-3"}
IsIntSegment(part) == part \in IntSegments
IntOf(part) ==
    CASE part = "0" -> 0
      [] part = "1" -> 1
      [] part = "2" -> 2
      [] part = "3" -> 3
      [] part = "-1" -> 0 - 1
      [] part = "-2" -> 0 - 2
      [] part = "-3" -> 0 - 3

(***************************************************************************)
(* state.py: cards, decks and the construction of the game state.          *)
(***************************************************************************)
SUITS == <<"S", "H", "D", "C">>

\* The cards one composition entry generates, idx continuing from idx0:
\* for suit in suits: for rank in ranks: idx += 1; Card(...).
EntryCards(deck_name, entry, idx0) ==
    IF entry.type = "template" /\ entry.template = "standard_suits"
    THEN [n \in 1..(Len(SUITS) * Len(entry.values)) |->
            [deck |-> deck_name,
             idx  |-> idx0 + n,
             suit |-> SUITS[((n - 1) \div Len(entry.values)) + 1],
             rank |-> entry.values[((n - 1) % Len(entry.values)) + 1]]]
    ELSE << >>

RECURSIVE CompositionCards(_, _, _)
CompositionCards(deck_name, comp, idx0) ==
    IF comp = << >> THEN << >>
    ELSE LET first == EntryCards(deck_name, Head(comp), idx0)
         IN  first \o CompositionCards(deck_name, Tail(comp), idx0 + Len(first))

\* deck_types.get(deck_def.type, {}) on the declared deck types, in order.
DeclaredTypes(deck_types, type) ==
    {j \in 1..Len(deck_types) : deck_types[j].name = type}

\* create_deck: a deck type that is not declared has no composition.
create_deck(deck_name, deck_def, deck_types) ==
    IF DeclaredTypes(deck_types, deck_def.type) # {}
    THEN CompositionCards(deck_name,
            deck_types[CHOOSE j \in DeclaredTypes(deck_types, deck_def.type) : TRUE].composition, 0)
    ELSE << >>

\* A reference to a Zone object: a shared zone (owner NoOwner) or the zone
\* `name` of player `owner`.
ZoneRef(owner, name) == [owner |-> owner, name |-> name]

per_player_zone_defs(cgml) == SelectSeq(cgml.zones, LAMBDA z : z.per_player)
shared_zone_defs(cgml) == SelectSeq(cgml.zones, LAMBDA z : ~z.per_player)

ZoneNames(zone_defs) == {zone_defs[i].name : i \in 1..Len(zone_defs)}

\* of_deck of the zone definition called `name` (the dict keeps one Zone per name).
OfDeck(zone_defs, name) ==
    LET i == CHOOSE j \in 1..Len(zone_defs) : zone_defs[j].name = name
    IN  zone_defs[i].of_deck

\* Zone.of_deck of the Zone object a reference names.
ZoneOfDeck(cgml, ref) ==
    IF ref.owner = NoOwner
    THEN OfDeck(shared_zone_defs(cgml), ref.name)
    ELSE OfDeck(per_player_zone_defs(cgml), ref.name)

\* The Zone objects in the order the assignment loop visits them for one deck:
\* state.shared_zones.values(), then each player's zones.values().
RECURSIVE RefsOfDefs(_, _)
RefsOfDefs(zone_defs, owner) ==
    IF zone_defs = << >> THEN << >>
    ELSE <<ZoneRef(owner, Head(zone_defs).name)>> \o RefsOfDefs(Tail(zone_defs), owner)

RECURSIVE PlayerRefs(_, _, _)
PlayerRefs(cgml, p, n) ==
    IF p >= n THEN << >>
    ELSE RefsOfDefs(per_player_zone_defs(cgml), p) \o PlayerRefs(cgml, p + 1, n)

AllZoneRefs(cgml, n) == RefsOfDefs(shared_zone_defs(cgml), NoOwner) \o PlayerRefs(cgml, 0, n)

ZoneRefSet(cgml, n) == {AllZoneRefs(cgml, n)[i] : i \in 1..Len(AllZoneRefs(cgml, n))}

\* zone.cards of the Zone a reference names.
Cards(gs, ref) ==
    IF ref.owner = NoOwner
    THEN gs.shared_zones[ref.name]
    ELSE gs.players[ref.owner].zones[ref.name]

\* The game state with zone.cards of `ref` replaced.
WithCards(gs, ref, cards) ==
    IF ref.owner = NoOwner
    THEN [gs EXCEPT !.shared_zones[ref.name] = cards]
    ELSE [gs EXCEPT !.players[ref.owner].zones[ref.name] = cards]

\* The cards of every deck whose name is `of_deck`, in decks.items() order:
\* each matching zone gets zone.cards.extend(cards) once per such deck.
RECURSIVE AssignedCards(_, _, _)
AssignedCards(cgml, deck_defs, of_deck) ==
    IF deck_defs = << >> THEN << >>
    ELSE (IF Head(deck_defs).name = of_deck
          THEN create_deck(Head(deck_defs).name, Head(deck_defs), cgml.deck_types)
          ELSE << >>)
         \o AssignedCards(cgml, Tail(deck_defs), of_deck)

\* {v.name: v.initial_value for v in var_defs if v.per_player} and its
\* shared counterpart: the last declaration of a name wins.
VarsOf(var_defs) ==
    [name \in {var_defs[i].name : i \in 1..Len(var_defs)} |->
        LET i == CHOOSE j \in 1..Len(var_defs) :
                    /\ var_defs[j].name = name
                    /\ \A l \in 1..Len(var_defs) : var_defs[l].name = name => l <= j
        IN  var_defs[i].initial_value]

per_player_vars(cgml) == VarsOf(SelectSeq(cgml.variables, LAMBDA v : v.per_player))
shared_vars(cgml) == VarsOf(SelectSeq(cgml.variables, LAMBDA v : ~v.per_player))

\* build_game_state_from_cgml: players and zones, then every deck's cards
\* extended (by reference) into every zone whose of_deck names the deck.
build_game_state_from_cgml(cgml, n) ==
    [players |->
        [p \in 0..(n - 1) |->
            [id |-> p,
             variables |-> per_player_vars(cgml),
             zones |-> [name \in ZoneNames(per_player_zone_defs(cgml)) |->
                          AssignedCards(cgml, cgml.decks,
                                        OfDeck(per_player_zone_defs(cgml), name))]]],
     shared_zones |->
        [name \in ZoneNames(shared_zone_defs(cgml)) |->
            AssignedCards(cgml, cgml.decks, OfDeck(shared_zone_defs(cgml), name))],
     shared_variables |-> shared_vars(cgml),
     current_state |-> PyNone]

\* GameState.decks: the generated card sequence of every deck.
GeneratedCards(cgml) ==
    UNION {{create_deck(cgml.decks[d].name, cgml.decks[d], cgml.deck_types)[i] :
              i \in 1..Len(create_deck(cgml.decks[d].name, cgml.decks[d], cgml.deck_types))} :
           d \in 1..Len(cgml.decks)}

(***************************************************************************)
(* The result of a call: the game state it leaves and the exception it     *)
(* raised ("None" when it returned, "NoReturn" when it never returns).     *)
(***************************************************************************)
Returned(gs) == [gs |-> gs, exc |-> "None"]
Raised(gs, kind) == [gs |-> gs, exc |-> kind]

(***************************************************************************)
(* state.py: find_zone, called with player = None by every caller.  A zone *)
(* path is the sequence zone_path.split('.') of its segments.              *)
(***************************************************************************)
\* Python list indexing current[idx] over n elements: the index it reads, or
\* -1 when it raises IndexError (a negative idx counts from the end).
ListIndex(idx, n) ==
    IF 0 <= idx /\ idx < n THEN idx
    ELSE IF idx < 0 /\ idx + n >= 0 THEN idx + n
    ELSE 0 - 1

\* One step of the walk: `current` is the ctx dict, the players list, a
\* Player, a dict of zones, a Zone, or another value ("other": a field of a
\* Player or Zone that holds no Zone); the result has kind "KeyError" when
\* the step raises.
ZoneStep(gs, current, part) ==
    CASE current.kind = "ctx" ->
            IF part = "players" THEN [kind |-> "players"]
            ELSE IF part \in {"zones", "shared_zones"} THEN [kind |-> "shared_zones"]
            ELSE [kind |-> "KeyError"]
      [] current.kind = "players" ->
            IF IsIntSegment(part)
               /\ ListIndex(IntOf(part), Cardinality(DOMAIN gs.players)) >= 0
            THEN [kind |-> "player",
                  idx |-> ListIndex(IntOf(part), Cardinality(DOMAIN gs.players))]
            ELSE [kind |-> "KeyError"]
      [] current.kind = "shared_zones" ->
            IF part \in DOMAIN gs.shared_zones
            THEN [kind |-> "zone", ref |-> ZoneRef(NoOwner, part)]
            ELSE [kind |-> "KeyError"]
      [] current.kind = "player_zones" ->
            IF part \in DOMAIN gs.players[current.idx].zones
            THEN [kind |-> "zone", ref |-> ZoneRef(current.idx, part)]
            ELSE [kind |-> "KeyError"]
      [] current.kind = "player" ->
            IF part = "zones" THEN [kind |-> "player_zones", idx |-> current.idx]
            ELSE IF part \in {"id", "name", "variables"} THEN [kind |-> "other"]
            ELSE [kind |-> "KeyError"]
      [] current.kind = "zone" ->
            IF part \in {"name", "type", "of_deck", "owner", "ordering", "visibility",
                         "cards", "card_count", "top_card"}
            THEN [kind |-> "other"]
            ELSE [kind |-> "KeyError"]
      [] OTHER -> [kind |-> "KeyError"]

RECURSIVE ZoneWalk(_, _, _)
ZoneWalk(gs, current, parts) ==
    IF parts = << >> \/ current.kind = "KeyError" THEN current
    ELSE ZoneWalk(gs, ZoneStep(gs, current, Head(parts)), Tail(parts))

\* find_zone: [exc |-> "None", ref |-> the Zone] or [exc |-> the exception].
find_zone(gs, zone_path) ==
    IF Len(zone_path) = 1
    THEN LET name == zone_path[1]
             owners == {p \in DOMAIN gs.players : name \in DOMAIN gs.players[p].zones}
         IN  IF name \in DOMAIN gs.shared_zones
             THEN [exc |-> "None", ref |-> ZoneRef(NoOwner, name)]
             ELSE IF owners # {}
             THEN [exc |-> "None",
                   ref |-> ZoneRef(CHOOSE p \in owners : \A q \in owners : p <= q, name)]
             ELSE [exc |-> "ValueError"]
    ELSE LET found == ZoneWalk(gs, [kind |-> "ctx"], zone_path)
         IN  IF found.kind = "KeyError" THEN [exc |-> "KeyError"]
             ELSE IF found.kind = "zone" THEN [exc |-> "None", ref |-> found.ref]
             ELSE [exc |-> "ValueError"]

(***************************************************************************)
(* state.py: the zone primitives.                                          *)
(***************************************************************************)
\* MoveOne with pop() for pop(0): the card is taken from the back of from_zone.cards.
MoveOnePopBack(gs, from_zone, to_zone) ==
    LET cards == Cards(gs, from_zone)
        popped == WithCards(gs, from_zone, SubSeq(cards, 1, Len(cards) - 1))
    IN  WithCards(popped, to_zone, Append(Cards(popped, to_zone), cards[Len(cards)]))

\* to_zone.cards.append(from_zone.cards.pop(0))
MoveOne(gs, from_zone, to_zone) ==
    LET card == Head(Cards(gs, from_zone))
        popped == WithCards(gs, from_zone, Tail(Cards(gs, from_zone)))
    IN  WithCards(popped, to_zone, Append(Cards(popped, to_zone), card))

RECURSIVE MoveLoop(_, _, _, _)
MoveLoop(gs, from_zone, to_zone, k) ==
    IF k <= 0 THEN gs
    ELSE MoveLoop(MoveOne(gs, from_zone, to_zone), from_zone, to_zone, k - 1)

\* move_cards appending the cards without popping them.
move_cards_copy(gs, from_zone, to_zone, count) ==
    WithCards(gs, to_zone,
              Cards(gs, to_zone)
                 \o SubSeq(Cards(gs, from_zone), 1, Min(count, Len(Cards(gs, from_zone)))))

\* move_cards: range(min(count, len(from_zone.cards))) is fixed on entry.
move_cards(gs, from_zone, to_zone, count) ==
    MoveLoop(gs, from_zone, to_zone, Min(count, Len(Cards(gs, from_zone))))

RECURSIVE MoveAllLoop(_, _, _)
MoveAllLoop(gs, from_zone, to_zone) ==
    IF Cards(gs, from_zone) = << >> THEN gs
    ELSE MoveAllLoop(MoveOne(gs, from_zone, to_zone), from_zone, to_zone)

\* move_all_cards: while from_zone.cards.  With both references naming one
\* Zone every pass pops a card and appends it again, so the loop never ends.
move_all_cards(gs, from_zone, to_zone) ==
    IF from_zone = to_zone /\ Cards(gs, from_zone) # << >>
    THEN Raised(gs, "NoReturn")
    ELSE Returned(MoveAllLoop(gs, from_zone, to_zone))

\* deal_cards: for _ in range(count): for player in players: if from_zone.cards: ...
\* `rounds` rounds are left, `p` is the next player of the current round.
RECURSIVE DealLoop(_, _, _, _, _)
DealLoop(gs, from_zone, to_zone_name, rounds, p) ==
    IF rounds <= 0 THEN Returned(gs)
    ELSE IF p >= Cardinality(DOMAIN gs.players)
    THEN DealLoop(gs, from_zone, to_zone_name, rounds - 1, 0)
    ELSE IF Cards(gs, from_zone) = << >>
    THEN DealLoop(gs, from_zone, to_zone_name, rounds, p + 1)
    ELSE IF to_zone_name \notin DOMAIN gs.players[p].zones
    THEN Raised(gs, "KeyError")
    ELSE DealLoop(MoveOne(gs, from_zone, ZoneRef(p, to_zone_name)),
                  from_zone, to_zone_name, rounds, p + 1)

\* deal_cards with its loops swapped: each player in turn is dealt
\* `count` cards before the next player gets any.
RECURSIVE DealPlayerMajor(_, _, _, _, _)
DealPlayerMajor(gs, from_zone, to_zone_name, count, p) ==
    IF p >= Cardinality(DOMAIN gs.players) THEN Returned(gs)
    ELSE IF to_zone_name \notin DOMAIN gs.players[p].zones THEN Raised(gs, "KeyError")
    ELSE DealPlayerMajor(move_cards(gs, from_zone, ZoneRef(p, to_zone_name), count),
                         from_zone, to_zone_name, count, p + 1)

deal_cards_player_major(gs, from_zone, to_zone_name, count) ==
    DealPlayerMajor(gs, from_zone, to_zone_name, count, 0)

deal_cards(gs, from_zone, to_zone_name, count) ==
    DealLoop(gs, from_zone, to_zone_name, count, 0)

RECURSIVE DealAllLoop(_, _, _, _)
DealAllLoop(gs, from_deck, to_zone_name, idx) ==
    LET pl_count == Cardinality(DOMAIN gs.players)
    IN  IF Cards(gs, from_deck) = << >> THEN Returned(gs)
        ELSE IF pl_count = 0 THEN Raised(gs, "ZeroDivisionError")
        ELSE IF to_zone_name \notin DOMAIN gs.players[idx % pl_count].zones
        THEN Raised(gs, "KeyError")
        ELSE DealAllLoop(MoveOne(gs, from_deck, ZoneRef(idx % pl_count, to_zone_name)),
                         from_deck, to_zone_name, idx + 1)

\* deal_all_cards: while from_deck.cards.  With one player whose to-zone is
\* from_deck itself every card popped is appended again: the loop never ends.
deal_all_cards(gs, from_deck, to_zone_name) ==
    IF Cardinality(DOMAIN gs.players) = 1 /\ from_deck = ZoneRef(0, to_zone_name)
       /\ Cards(gs, from_deck) # << >>
    THEN Raised(gs, "NoReturn")
    ELSE DealAllLoop(gs, from_deck, to_zone_name, 0)

\* random.shuffle(zone.cards): every arrangement of the list's positions.
Shuffles(cards) ==
    {[i \in 1..Len(cards) |-> cards[perm[i]]] : perm \in Permutations(1..Len(cards))}

\* shuffle_zone drawing every position afresh from the zone's cards, so a
\* card may come up twice and another not at all.
shuffle_zone_resample(gs, zone) ==
    {WithCards(gs, zone, s) :
        s \in [1..Len(Cards(gs, zone)) -> {Cards(gs, zone)[i] : i \in 1..Len(Cards(gs, zone))}]}

\* shuffle_zone: the game states it can leave.
shuffle_zone(gs, zone) == {WithCards(gs, zone, s) : s \in Shuffles(Cards(gs, zone))}

(***************************************************************************)
(* engine.py: Python values as the evaluator sees them.  A scalar is a     *)
(* record [k, i, s] (kind, integer payload, string payload); a list, a     *)
(* dict and an object carry their elements.                                *)
(***************************************************************************)
IntVal(n) == [k |-> "int", i |-> n, s |-> ""]
StrVal(x) == [k |-> "str", i |-> 0, s |-> x]
BoolVal(b) == [k |-> "bool", i |-> IF b THEN 1 ELSE 0, s |-> ""]
NoneVal == [k |-> "none", i |-> 0, s |-> ""]
ListVal(items) == [k |-> "list", items |-> items]
\* A dict with string keys (get) and integer keys (iget).
DictVal(get, iget) == [k |-> "dict", get |-> get, iget |-> iget]
\* An object: its attributes (fields and properties) by name.
ObjVal(cls, get) == [k |-> "obj", cls |-> cls, get |-> get]

OptStrVal(x) == IF x = PyNone THEN NoneVal ELSE StrVal(x)
OptIntVal(n) == IF n = NoOwner THEN NoneVal ELSE IntVal(n)

IsNumber(v) == v.k \in {"int", "bool"}

\* bool(v)
Truthy(v) ==
    CASE v.k \in {"int", "bool"} -> v.i # 0
      [] v.k = "str" -> v.s # ""
      [] v.k = "none" -> FALSE
      [] v.k = "list" -> v.items # << >>
      [] v.k = "dict" -> DOMAIN v.get # {} \/ DOMAIN v.iget # {}
      [] OTHER -> TRUE

\* left == right
PyEq(left, right) ==
    IF IsNumber(left) /\ IsNumber(right) THEN left.i = right.i
    ELSE IF left.k # right.k THEN FALSE
    ELSE IF left.k = "str" THEN left.s = right.s
    ELSE IF left.k = "none" THEN TRUE
    ELSE left = right

\* The order of Python strings (by code point) on the strings of the model.
StrOrder == <<"", "10", "2", "3", "A", "GameOver", "J", "K", "Play", "Q">>
StrRank(x) == CHOOSE n \in 1..Len(StrOrder) : StrOrder[n] = x

\* left < right is defined (no TypeError) for two numbers and for two strings.
Comparable(left, right) ==
    \/ IsNumber(left) /\ IsNumber(right)
    \/ left.k = "str" /\ right.k = "str"

PyLess(left, right) ==
    IF IsNumber(left) THEN left.i < right.i ELSE StrRank(left.s) < StrRank(right.s)

\* str(v) of a scalar, on the values of the model.
DecimalOf(n) ==
    CASE n = 0 -> "0" [] n = 1 -> "1" [] n = 2 -> "2" [] n = 3 -> "3" [] n = 4 -> "4"
      [] n = 5 -> "5" [] n = 6 -> "6" [] n = 7 -> "7" [] n = 8 -> "8" [] n = 9 -> "9"
      [] n = 10 -> "10" [] OTHER -> "<number>"

StrOf(v) ==
    CASE v.k = "str" -> v.s
      [] v.k = "int" -> DecimalOf(v.i)
      [] v.k = "bool" -> IF v.i = 1 THEN "True" ELSE "False"
      [] v.k = "none" -> "None"
      [] OTHER -> "<object>"

\* The result of an evaluation: the value, or the exception raised.
Value(v) == [exc |-> "None", val |-> v]
Throw(kind) == [exc |-> kind, val |-> NoneVal]

(***************************************************************************)
(* The game state as the object tree resolve_path walks.                   *)
(***************************************************************************)
CardValue(card) ==
    ObjVal("Card",
           [id |-> [k |-> "str", i |-> card.idx, s |-> card.deck],
            name |-> [k |-> "str", i |-> card.idx, s |-> card.rank],
            properties |-> DictVal([rank |-> StrVal(card.rank), suit |-> StrVal(card.suit)], << >>),
            owner |-> NoneVal])

CardListValue(cards) == ListVal([i \in 1..Len(cards) |-> CardValue(cards[i])])

\* A Zone: its fields and its properties card_count and top_card.
ZoneValue(cgml, gs, ref) ==
    ObjVal("Zone",
           [name |-> StrVal(ref.name),
            type |-> StrVal("zone"),
            of_deck |-> OptStrVal(ZoneOfDeck(cgml, ref)),
            owner |-> OptIntVal(ref.owner),
            ordering |-> NoneVal,
            visibility |-> NoneVal,
            cards |-> CardListValue(Cards(gs, ref)),
            card_count |-> IntVal(Len(Cards(gs, ref))),
            top_card |-> IF Cards(gs, ref) = << >> THEN NoneVal
                         ELSE CardValue(Cards(gs, ref)[Len(Cards(gs, ref))])])

PlayerValue(cgml, gs, p) ==
    ObjVal("Player",
           [id |-> IntVal(p),
            name |-> StrVal("Player"),
            variables |-> DictVal(gs.players[p].variables, << >>),
            zones |-> DictVal([name \in DOMAIN gs.players[p].zones |->
                                  ZoneValue(cgml, gs, ZoneRef(p, name))], << >>)])

GameStateValue(cgml, gs) ==
    ObjVal("GameState",
           [players |-> ListVal([i \in 1..Cardinality(DOMAIN gs.players) |->
                                    PlayerValue(cgml, gs, i - 1)]),
            shared_zones |-> DictVal([name \in DOMAIN gs.shared_zones |->
                                         ZoneValue(cgml, gs, ZoneRef(NoOwner, name))], << >>),
            shared_variables |-> DictVal(gs.shared_variables, << >>),
            decks |-> DictVal([d \in {cgml.decks[j].name : j \in 1..Len(cgml.decks)} |->
                                  CardListValue(AssignedCards(cgml, cgml.decks, d))], << >>),
            cgml_definition |-> ObjVal("CgmlDefinition", << >>),
            current_state |-> OptStrVal(gs.current_state)])

(***************************************************************************)
(* engine.py: resolve_path.  A path is None or the sequence                *)
(* path.split('.') of its segments (never empty: "".split('.') is [""]).    *)
(***************************************************************************)
NonePath == [is_none |-> TRUE, parts |-> << >>]
Path(parts) == [is_none |-> FALSE, parts |-> parts]

\* One segment applied to `current`.
ResolveStep(current, part) ==
    CASE current.k = "dict" ->
            IF part \in DOMAIN current.get THEN Value(current.get[part])
            ELSE IF IsIntSegment(part) /\ IntOf(part) \in DOMAIN current.iget
            THEN Value(current.iget[IntOf(part)])
            ELSE Throw("KeyError")
      [] current.k = "list" ->
            IF ~IsIntSegment(part) THEN Throw("KeyError")
            ELSE IF IntOf(part) < Len(current.items)
            THEN (IF ListIndex(IntOf(part), Len(current.items)) >= 0
                  THEN Value(current.items[ListIndex(IntOf(part), Len(current.items)) + 1])
                  ELSE Throw("IndexError"))
            ELSE Throw("IndexError")
      [] current.k = "obj" ->
            IF part \in DOMAIN current.get THEN Value(current.get[part])
            ELSE Throw("AttributeError")
      [] OTHER -> Throw("AttributeError")

RECURSIVE ResolveParts(_, _)
ResolveParts(current, parts) ==
    IF parts = << >> THEN Value(current)
    ELSE LET step == ResolveStep(current, Head(parts))
         IN  IF step.exc # "None" THEN step ELSE ResolveParts(step.val, Tail(parts))

resolve_path(obj, path) ==
    IF path.is_none THEN Value(obj) ELSE ResolveParts(obj, path.parts)

(***************************************************************************)
(* engine.py: RulesEngine.  An expression node is a record: cls is the     *)
(* class of the Python object ("Condition", "Operand", or "raw" for a      *)
(* plain value), keys the fields that are not None, and one field per key. *)
(***************************************************************************)
Raw(v) == [cls |-> "raw", keys |-> {}, raw |-> v]
NoCondition == [cls |-> "None", keys |-> {}]
Has(node, key) == key \in node.keys

\* The first position of x in the stringified hierarchy, 0 when absent.
RankIndex(rank_hierarchy, x) ==
    LET at == {n \in 1..Len(rank_hierarchy) : StrOf(rank_hierarchy[n]) = x}
    IN  IF at = {} THEN 0 ELSE CHOOSE n \in at : \A m \in at : n <= m

\* _maybe_compare_ranks looking the values up as they are (`left in
\* rank_hierarchy`, `rank_hierarchy.index(left)`), without str().
maybe_compare_ranks_unstringified(cgml, left, right) ==
    IF cgml.deck_types = << >> THEN <<left, right>>
    ELSE LET rank_hierarchy == cgml.deck_types[1].rank_hierarchy
             at(x) == {n \in 1..Len(rank_hierarchy) : PyEq(rank_hierarchy[n], x)}
         IN  IF at(left) # {} /\ at(right) # {}
             THEN <<IntVal((CHOOSE n \in at(left) : \A m \in at(left) : n <= m) - 1),
                    IntVal((CHOOSE n \in at(right) : \A m \in at(right) : n <= m) - 1)>>
             ELSE <<left, right>>

\* _maybe_compare_ranks: the pair to compare.
maybe_compare_ranks(cgml, left, right) ==
    IF cgml.deck_types = << >> THEN <<left, right>>
    ELSE LET rank_hierarchy == cgml.deck_types[1].rank_hierarchy
             l == RankIndex(rank_hierarchy, StrOf(left))
             r == RankIndex(rank_hierarchy, StrOf(right))
         IN  IF left.k \in {"int", "str", "bool", "none"}
                /\ right.k \in {"int", "str", "bool", "none"}
                /\ l > 0 /\ r > 0
             THEN <<IntVal(l - 1), IntVal(r - 1)>>
             ELSE <<left, right>>

\* max(vals) and min(vals): the first greatest (least) element.
RECURSIVE Extreme(_, _, _)
Extreme(vals, best, greatest) ==
    IF vals = << >> THEN Value(best)
    ELSE IF ~Comparable(Head(vals), best) THEN Throw("TypeError")
    ELSE IF greatest /\ PyLess(best, Head(vals)) THEN Extreme(Tail(vals), Head(vals), greatest)
    ELSE IF ~greatest /\ PyLess(Head(vals), best) THEN Extreme(Tail(vals), Head(vals), greatest)
    ELSE Extreme(Tail(vals), best, greatest)

ExtremeOf(vals, greatest) ==
    IF vals = << >> THEN Throw("ValueError")
    ELSE IF Len(vals) = 1 THEN Value(vals[1])
    ELSE Extreme(Tail(vals), Head(vals), greatest)

\* flat_vals: a list among vals is spliced in, one level.
RECURSIVE Flatten(_)
Flatten(vals) ==
    IF vals = << >> THEN << >>
    ELSE (IF Head(vals).k = "list" THEN Head(vals).items ELSE <<Head(vals)>>)
         \o Flatten(Tail(vals))

\* sum(flat_vals), starting from 0.
RECURSIVE SumOf(_, _)
SumOf(vals, acc) ==
    IF vals = << >> THEN Value(IntVal(acc))
    ELSE IF ~IsNumber(Head(vals)) THEN Throw("TypeError")
    ELSE SumOf(Tail(vals), acc + Head(vals).i)

\* len(v)
LenOf(v) ==
    CASE v.k = "list" -> Value(IntVal(Len(v.items)))
      [] v.k = "dict" -> Value(IntVal(Cardinality(DOMAIN v.get) + Cardinality(DOMAIN v.iget)))
      [] v.k = "str" -> Value(IntVal(Len(v.s)))
      [] OTHER -> Throw("TypeError")

RECURSIVE evaluate_condition(_, _, _, _)
RECURSIVE resolve_operand(_, _, _, _)
RECURSIVE ResolveAll(_, _, _, _)
RECURSIVE AllOf(_, _, _, _)
RECURSIVE AnyOf(_, _, _, _)

\* A list comprehension's next element in front of the rest: the values, or
\* the first exception.
Resolved(first, rest) ==
    IF first.exc # "None" THEN [exc |-> first.exc, vals |-> << >>]
    ELSE IF rest.exc # "None" THEN rest
    ELSE [exc |-> "None", vals |-> <<first.val>> \o rest.vals]

\* [self.resolve_operand(x, game_state, context) for x in operands]
ResolveAll(cgml, operands, gs, context) ==
    IF operands = << >> THEN [exc |-> "None", vals |-> << >>]
    ELSE Resolved(resolve_operand(cgml, Head(operands), gs, context),
                  ResolveAll(cgml, Tail(operands), gs, context))

\* all(...) and any(...) over a generator: the first element decides (it
\* raises, or it is `deciding`), or the rest does.
Quantified(first, rest, deciding) ==
    IF first.exc # "None" THEN first
    ELSE IF Truthy(first.val) = deciding THEN Value(BoolVal(deciding))
    ELSE rest

\* all(self.evaluate_condition(sub, ...) for sub in subs): stops at the first false.
AllOf(cgml, subs, gs, context) ==
    IF subs = << >> THEN Value(BoolVal(TRUE))
    ELSE Quantified(evaluate_condition(cgml, Head(subs), gs, context),
                    AllOf(cgml, Tail(subs), gs, context), FALSE)

\* any(...): stops at the first true.
AnyOf(cgml, subs, gs, context) ==
    IF subs = << >> THEN Value(BoolVal(FALSE))
    ELSE Quantified(evaluate_condition(cgml, Head(subs), gs, context),
                    AnyOf(cgml, Tail(subs), gs, context), TRUE)

\* `op` on the pair _maybe_compare_ranks returned.
Compared(pair, op) ==
    IF op = "isEqual" THEN Value(BoolVal(PyEq(pair[1], pair[2])))
    ELSE IF ~Comparable(pair[1], pair[2]) THEN Throw("TypeError")
    ELSE IF op = "isGreaterThan" THEN Value(BoolVal(PyLess(pair[2], pair[1])))
    ELSE Value(BoolVal(PyLess(pair[1], pair[2])))

\* The comparison of two resolved operands: the left one is resolved first.
Compare(cgml, left, right, op) ==
    IF left.exc # "None" THEN left
    ELSE IF right.exc # "None" THEN right
    ELSE Compared(maybe_compare_ranks(cgml, left.val, right.val), op)

\* The first of isEqual, isGreaterThan, isLessThan the node has.
Comparison(node) ==
    IF Has(node, "isEqual") THEN "isEqual"
    ELSE IF Has(node, "isGreaterThan") THEN "isGreaterThan"
    ELSE "isLessThan"

IsComparison(node) ==
    Has(node, "isEqual") \/ Has(node, "isGreaterThan") \/ Has(node, "isLessThan")

\* The operand list of the node's comparison.
Compares(node) ==
    CASE Comparison(node) = "isEqual" -> node.isEqual
      [] Comparison(node) = "isGreaterThan" -> node.isGreaterThan
      [] OTHER -> node.isLessThan

\* max_, min_, sum_ and count: the first of them the node has.
Aggregation(node) ==
    IF Has(node, "max_") THEN "max_"
    ELSE IF Has(node, "min_") THEN "min_"
    ELSE IF Has(node, "sum_") THEN "sum_"
    ELSE "count"

IsAggregate(node) ==
    Has(node, "max_") \/ Has(node, "min_") \/ Has(node, "sum_") \/ Has(node, "count")

\* The operand list of the node's aggregate.
Aggregates(node) ==
    CASE Aggregation(node) = "max_" -> node.max_
      [] Aggregation(node) = "min_" -> node.min_
      [] Aggregation(node) = "sum_" -> node.sum_
      [] OTHER -> node.count

\* The aggregate of the resolved values; count resolves its operand only
\* when it is alone, and is the number of operands otherwise.
Aggregated(kind, operands, vals) ==
    IF kind = "count" /\ Len(operands) # 1 THEN Value(IntVal(Len(operands)))
    ELSE IF vals.exc # "None" THEN Throw(vals.exc)
    ELSE IF kind = "count" THEN LenOf(vals.vals[1])
    ELSE IF kind = "sum_" THEN SumOf(Flatten(vals.vals), 0)
    ELSE ExtremeOf(vals.vals, kind = "max_")

Aggregate(cgml, node, gs, context) ==
    Aggregated(Aggregation(node), Aggregates(node),
               ResolveAll(cgml, Aggregates(node), gs, context))

\* `not` of an evaluated subcondition.
Negated(sub) == IF sub.exc # "None" THEN sub ELSE Value(BoolVal(~Truthy(sub.val)))

\* evaluate_condition coercing a `value` node to bool.
evaluate_condition_bool_value(cgml, cond, gs, context) ==
    IF cond.cls = "raw" THEN Value(BoolVal(Truthy(cond.raw)))
    ELSE IF cond.cls = "None" THEN Value(BoolVal(FALSE))
    ELSE IF cond.cls # "Condition" THEN Value(BoolVal(TRUE))
    ELSE IF IsComparison(cond)
    THEN Compare(cgml, resolve_operand(cgml, Compares(cond)[1], gs, context),
                 resolve_operand(cgml, Compares(cond)[2], gs, context), Comparison(cond))
    ELSE IF Has(cond, "and_") THEN AllOf(cgml, cond.and_, gs, context)
    ELSE IF Has(cond, "or_") THEN AnyOf(cgml, cond.or_, gs, context)
    ELSE IF Has(cond, "not_") THEN Negated(evaluate_condition(cgml, cond.not_, gs, context))
    ELSE IF IsAggregate(cond) THEN Aggregate(cgml, cond, gs, context)
    ELSE IF Has(cond, "value") THEN Value(BoolVal(Truthy(cond.value)))
    ELSE IF Has(cond, "path") THEN resolve_path(GameStateValue(cgml, gs), cond.path)
    ELSE IF Has(cond, "ref")
    THEN (IF cond.ref \in DOMAIN context THEN Value(context[cond.ref]) ELSE Value(NoneVal))
    ELSE Value(BoolVal(FALSE))

evaluate_condition(cgml, cond, gs, context) ==
    IF cond.cls = "raw" THEN Value(BoolVal(Truthy(cond.raw)))
    ELSE IF cond.cls = "None" THEN Value(BoolVal(FALSE))
    ELSE IF cond.cls # "Condition" THEN Value(BoolVal(TRUE))
    ELSE IF IsComparison(cond)
    THEN Compare(cgml, resolve_operand(cgml, Compares(cond)[1], gs, context),
                 resolve_operand(cgml, Compares(cond)[2], gs, context), Comparison(cond))
    ELSE IF Has(cond, "and_") THEN AllOf(cgml, cond.and_, gs, context)
    ELSE IF Has(cond, "or_") THEN AnyOf(cgml, cond.or_, gs, context)
    ELSE IF Has(cond, "not_") THEN Negated(evaluate_condition(cgml, cond.not_, gs, context))
    ELSE IF IsAggregate(cond) THEN Aggregate(cgml, cond, gs, context)
    ELSE IF Has(cond, "value") THEN Value(cond.value)
    ELSE IF Has(cond, "path") THEN resolve_path(GameStateValue(cgml, gs), cond.path)
    ELSE IF Has(cond, "ref")
    THEN (IF cond.ref \in DOMAIN context THEN Value(context[cond.ref]) ELSE Value(NoneVal))
    ELSE Value(BoolVal(FALSE))

\* The first of the operand's fields that resolve_operand hands to evaluate_condition.
Delegated(operand) ==
    IF IsComparison(operand) THEN Comparison(operand)
    ELSE IF Has(operand, "and_") THEN "and_"
    ELSE IF Has(operand, "or_") THEN "or_"
    ELSE "not_"

IsDelegated(operand) ==
    IsComparison(operand) \/ Has(operand, "and_") \/ Has(operand, "or_") \/ Has(operand, "not_")

\* The Condition(...) resolve_operand builds from one field of an Operand.
AsCondition(operand, key) == [operand EXCEPT !.cls = "Condition", !.keys = {key}]

resolve_operand(cgml, operand, gs, context) ==
    IF operand.cls = "raw" THEN Value(operand.raw)
    ELSE IF operand.cls # "Operand" THEN Value(ObjVal(operand.cls, << >>))
    ELSE IF Has(operand, "path") THEN resolve_path(GameStateValue(cgml, gs), operand.path)
    ELSE IF Has(operand, "value") THEN Value(operand.value)
    ELSE IF Has(operand, "ref")
    THEN (IF operand.ref \in DOMAIN context THEN Value(context[operand.ref])
          ELSE Value(NoneVal))
    ELSE IF IsDelegated(operand)
    THEN evaluate_condition(cgml, AsCondition(operand, Delegated(operand)), gs, context)
    ELSE IF IsAggregate(operand) THEN Aggregate(cgml, operand, gs, context)
    ELSE Value(ObjVal("Operand", << >>))

\* The truth of an evaluated condition.
Truth(result) == IF result.exc # "None" THEN result ELSE Value(BoolVal(Truthy(result.val)))

\* The condition evaluated inside try/except: one that raises counts as false.
ConditionHoldsOrFalse(cgml, condition, gs) ==
    IF condition.cls = "None" THEN Value(BoolVal(TRUE))
    ELSE IF evaluate_condition(cgml, condition, gs, << >>).exc # "None"
    THEN Value(BoolVal(FALSE))
    ELSE Truth(evaluate_condition(cgml, condition, gs, << >>))

\* `not x.condition or self.rules_engine.evaluate_condition(x.condition, game_state)`:
\* an absent condition is not evaluated; the result is its truth, or the exception.
ConditionHolds(cgml, condition, gs) ==
    IF condition.cls = "None" THEN Value(BoolVal(TRUE))
    ELSE Truth(evaluate_condition(cgml, condition, gs, << >>))

(***************************************************************************)
(* state.py: the setup phase.  A setup action is the dict                  *)
(* [action, target, from_, to, count, from_deck]; zone paths are segment   *)
(* sequences, an absent target is the empty sequence.                      *)
(***************************************************************************)
\* shuffle_zone on each zone of `refs` in turn: the game states that can result.
RECURSIVE ShuffleEach(_, _)
ShuffleEach(states, refs) ==
    IF refs = << >> THEN states
    ELSE ShuffleEach(UNION {shuffle_zone(gs, Head(refs)) : gs \in states}, Tail(refs))

\* The zones SHUFFLE visits for `name`: each player's, then the shared one.
RECURSIVE PlayerZonesNamed(_, _, _)
PlayerZonesNamed(gs, name, p) ==
    IF p >= Cardinality(DOMAIN gs.players) THEN << >>
    ELSE (IF name \in DOMAIN gs.players[p].zones THEN <<ZoneRef(p, name)>> ELSE << >>)
         \o PlayerZonesNamed(gs, name, p + 1)

SetupShuffleZones(gs, name) ==
    PlayerZonesNamed(gs, name, 0)
    \o (IF name \in DOMAIN gs.shared_zones THEN <<ZoneRef(NoOwner, name)>> ELSE << >>)

\* DEAL_ALL falling back on the first shared zone when no zone is of the deck.
DeckZoneOrFirstShared(cgml, gs, from_deck_name) ==
    LET shared == RefsOfDefs(shared_zone_defs(cgml), NoOwner)
        of_deck == SelectSeq(shared, LAMBDA z : ZoneOfDeck(cgml, z) = from_deck_name)
    IN  IF of_deck # << >> THEN <<of_deck[1]>>
        ELSE IF shared # << >> THEN <<shared[1]>>
        ELSE << >>

\* DEAL_ALL's deck zone: the first shared zone of the deck; failing that the
\* loop over the players leaves the last player's first zone of the deck.
\* An empty sequence when there is none.
DeckZone(cgml, gs, from_deck_name) ==
    LET shared == SelectSeq(RefsOfDefs(shared_zone_defs(cgml), NoOwner),
                            LAMBDA z : ZoneOfDeck(cgml, z) = from_deck_name)
        n == Cardinality(DOMAIN gs.players)
        own == SelectSeq(RefsOfDefs(per_player_zone_defs(cgml), n - 1),
                         LAMBDA z : ZoneOfDeck(cgml, z) = from_deck_name)
    IN  IF shared # << >> THEN <<shared[1]>>
        ELSE IF n > 0 /\ own # << >> THEN <<own[1]>>
        ELSE << >>

\* A call on two zone paths: both resolved (from first), then `body`.
OnZones(gs, from_path, to_path, body(_, _)) ==
    LET from_zone == find_zone(gs, from_path)
        to_zone == find_zone(gs, to_path)
    IN  IF from_zone.exc # "None" THEN Raised(gs, from_zone.exc)
        ELSE IF to_zone.exc # "None" THEN Raised(gs, to_zone.exc)
        ELSE body(from_zone.ref, to_zone.ref)

\* perform_setup_action: the results it can have.
perform_setup_action(cgml, action, gs) ==
    CASE action.action = "SHUFFLE" ->
            IF Len(action.target) >= 2 /\ action.target[1] = "zones"
            THEN {Returned(g) :
                    g \in ShuffleEach({gs}, SetupShuffleZones(gs, action.target[2]))}
            ELSE {Returned(gs)}
      [] action.action = "DEAL" ->
            LET from_zone == find_zone(gs, action.from_)
            IN  IF from_zone.exc # "None" THEN {Raised(gs, from_zone.exc)}
                ELSE {deal_cards(gs, from_zone.ref, action.to[Len(action.to)], action.count)}
      [] action.action = "MOVE" ->
            {OnZones(gs, action.from_, action.to,
                     LAMBDA f, t : Returned(move_cards(gs, f, t, action.count)))}
      [] action.action = "MOVE_ALL" ->
            {OnZones(gs, action.from_, action.to, LAMBDA f, t : move_all_cards(gs, f, t))}
      [] action.action = "DEAL_ALL" ->
            LET deck_zone == DeckZone(cgml, gs, action.from_deck)
            IN  IF deck_zone = << >> THEN {Raised(gs, "RuntimeError")}
                ELSE {deal_all_cards(gs, deck_zone[1], action.to[Len(action.to)])}
      [] OTHER -> {Raised(gs, "NotImplementedError")}

(***************************************************************************)
(* simulator.py: the action registry, and engine.py: execute_effect.  An   *)
(* effect action is [action, from_, to, count, target, state].             *)
(***************************************************************************)
ACTION_REGISTRY == {"MOVE", "MOVE_ALL", "SET_GAME_STATE", "SHUFFLE"}

move_action(gs, action_def) ==
    {OnZones(gs, action_def.from_, action_def.to,
             LAMBDA f, t : Returned(move_cards(gs, f, t, action_def.count)))}

move_all_action(gs, action_def) ==
    {OnZones(gs, action_def.from_, action_def.to, LAMBDA f, t : move_all_cards(gs, f, t))}

set_game_state_action(gs, action_def) ==
    {Returned([gs EXCEPT !.current_state = action_def.state])}

shuffle_action(gs, action_def) ==
    LET zone == find_zone(gs, action_def.target)
    IN  IF zone.exc # "None" THEN {Raised(gs, zone.exc)}
        ELSE {Returned(g) : g \in shuffle_zone(gs, zone.ref)}

\* The dispatch looking the name up with self.actions[action_name]: a name
\* that is not registered raises.
DispatchSubscript(gs, action_def) ==
    CASE action_def.action \notin ACTION_REGISTRY -> {Raised(gs, "KeyError")}
      [] action_def.action = "MOVE" -> move_action(gs, action_def)
      [] action_def.action = "MOVE_ALL" -> move_all_action(gs, action_def)
      [] action_def.action = "SET_GAME_STATE" -> set_game_state_action(gs, action_def)
      [] action_def.action = "SHUFFLE" -> shuffle_action(gs, action_def)

\* One action of the list: dispatched when registered, skipped when not.
Dispatch(gs, action_def) ==
    CASE action_def.action \notin ACTION_REGISTRY -> {Returned(gs)}
      [] action_def.action = "MOVE" -> move_action(gs, action_def)
      [] action_def.action = "MOVE_ALL" -> move_all_action(gs, action_def)
      [] action_def.action = "SET_GAME_STATE" -> set_game_state_action(gs, action_def)
      [] action_def.action = "SHUFFLE" -> shuffle_action(gs, action_def)

\* execute_effect: the actions in list order; an exception ends the walk.
RECURSIVE execute_effect(_, _)
execute_effect(effect_list, gs) ==
    IF effect_list = << >> THEN {Returned(gs)}
    ELSE UNION {IF first.exc # "None" THEN {first}
                ELSE execute_effect(Tail(effect_list), first.gs) :
                first \in Dispatch(gs, Head(effect_list))}

(***************************************************************************)
(* simulator.py: GameSimulator.                                            *)
(***************************************************************************)
GameOver == "GameOver"

\* _is_game_over comparing with a name other than the sentinel.
is_game_over_other_name(gs) == gs.current_state = "Over"

\* _is_game_over
is_game_over(gs) == gs.current_state = GameOver

\* _get_phases_for_state: [] for a state the flow does not declare.
get_phases_for_state(flow, state_name) ==
    IF state_name \in DOMAIN flow.states THEN flow.states[state_name] ELSE << >>

\* _current_phase: PyNone when phase_idx is out of range.
current_phase(flow, gs, idx) ==
    LET phases == get_phases_for_state(flow, gs.current_state)
    IN  IF 0 <= idx /\ idx < Len(phases) THEN phases[idx + 1] ELSE PyNone

\* rule.trigger == f"on.phase.{current_phase}", triggers being split at '.'.
Triggered(rule, phase) == rule.trigger = <<"on", "phase", PyStr(phase)>>

\* get_legal_actions over rules[i..]: the indexes of the legal rules in
\* declaration order, or the exception the first failing condition raises.
RECURSIVE LegalFrom(_, _, _, _)
LegalFrom(cgml, gs, phase, i) ==
    IF i > Len(cgml.rules) THEN [exc |-> "None", legal |-> << >>]
    ELSE IF ~Triggered(cgml.rules[i], phase) THEN LegalFrom(cgml, gs, phase, i + 1)
    ELSE LET holds == ConditionHolds(cgml, cgml.rules[i].condition, gs)
             rest == LegalFrom(cgml, gs, phase, i + 1)
         IN  IF holds.exc # "None" THEN [exc |-> holds.exc, legal |-> << >>]
             ELSE IF rest.exc # "None" THEN rest
             ELSE [exc |-> "None",
                   legal |-> (IF Truthy(holds.val) THEN <<i>> ELSE << >>) \o rest.legal]

get_legal_actions(cgml, gs, idx) ==
    LegalFrom(cgml, gs, current_phase(cgml.flow, gs, idx), 1)

\* A scan of the transitions from the last declared to the first, i counting
\* the transitions scanned.
RECURSIVE TransitionFromLast(_, _, _)
TransitionFromLast(cgml, gs, i) ==
    LET at == Len(cgml.flow.transitions) + 1 - i
    IN  IF at < 1 THEN [exc |-> "None", taken |-> 0]
        ELSE IF cgml.flow.transitions[at].from_ # gs.current_state
        THEN TransitionFromLast(cgml, gs, i + 1)
        ELSE IF ConditionHolds(cgml, cgml.flow.transitions[at].condition, gs).exc # "None"
        THEN [exc |-> ConditionHolds(cgml, cgml.flow.transitions[at].condition, gs).exc,
              taken |-> 0]
        ELSE IF Truthy(ConditionHolds(cgml, cgml.flow.transitions[at].condition, gs).val)
        THEN [exc |-> "None", taken |-> at]
        ELSE TransitionFromLast(cgml, gs, i + 1)

\* A scan that does not compare t.from_ with the current state: the first
\* transition whose condition holds is taken, whatever state it leaves.
RECURSIVE TransitionFromAny(_, _, _)
TransitionFromAny(cgml, gs, i) ==
    IF i > Len(cgml.flow.transitions) THEN [exc |-> "None", taken |-> 0]
    ELSE IF ConditionHolds(cgml, cgml.flow.transitions[i].condition, gs).exc # "None"
    THEN [exc |-> ConditionHolds(cgml, cgml.flow.transitions[i].condition, gs).exc,
          taken |-> 0]
    ELSE IF Truthy(ConditionHolds(cgml, cgml.flow.transitions[i].condition, gs).val)
    THEN [exc |-> "None", taken |-> i]
    ELSE TransitionFromAny(cgml, gs, i + 1)

\* _check_state_transitions over transitions[i..]: the index of the
\* transition taken (0 when it returns False), or the exception raised.
RECURSIVE TransitionFrom(_, _, _)
TransitionFrom(cgml, gs, i) ==
    IF i > Len(cgml.flow.transitions) THEN [exc |-> "None", taken |-> 0]
    ELSE IF cgml.flow.transitions[i].from_ # gs.current_state
    THEN TransitionFrom(cgml, gs, i + 1)
    ELSE LET holds == ConditionHolds(cgml, cgml.flow.transitions[i].condition, gs)
         IN  IF holds.exc # "None" THEN [exc |-> holds.exc, taken |-> 0]
             ELSE IF Truthy(holds.val) THEN [exc |-> "None", taken |-> i]
             ELSE TransitionFrom(cgml, gs, i + 1)

\* _check_state_transitions that evaluates no transition.
check_state_transitions_none(cgml, gs) == [exc |-> "None", taken |-> 0]

check_state_transitions(cgml, gs) == TransitionFrom(cgml, gs, 1)

\* _advance_turn
advance_turn(gs, player_idx) == (player_idx + 1) % Cardinality(DOMAIN gs.players)

\* _advance_phase calling _advance_turn on every advance, not only on the wrap.
advance_phase_turn_each(flow, gs, idx, player_idx) ==
    LET phases == get_phases_for_state(flow, gs.current_state)
    IN  IF phases = << >>
        THEN [phase_idx |-> idx, current_player_idx |-> player_idx,
              result |-> FALSE, turned |-> FALSE]
        ELSE IF idx + 1 >= Len(phases)
        THEN [phase_idx |-> 0, current_player_idx |-> advance_turn(gs, player_idx),
              result |-> FALSE, turned |-> TRUE]
        ELSE [phase_idx |-> idx + 1, current_player_idx |-> advance_turn(gs, player_idx),
              result |-> TRUE, turned |-> TRUE]

\* _advance_phase that steps past the last phase instead of wrapping.
advance_phase_no_wrap(flow, gs, idx, player_idx) ==
    LET phases == get_phases_for_state(flow, gs.current_state)
    IN  IF phases = << >>
        THEN [phase_idx |-> idx, current_player_idx |-> player_idx,
              result |-> FALSE, turned |-> FALSE]
        ELSE IF idx + 1 >= Len(phases)
        THEN [phase_idx |-> idx + 1, current_player_idx |-> advance_turn(gs, player_idx),
              result |-> FALSE, turned |-> TRUE]
        ELSE [phase_idx |-> idx + 1, current_player_idx |-> player_idx,
              result |-> TRUE, turned |-> FALSE]

\* _advance_phase returning True after the wrap.
advance_phase_wrap_true(flow, gs, idx, player_idx) ==
    LET phases == get_phases_for_state(flow, gs.current_state)
    IN  IF phases = << >>
        THEN [phase_idx |-> idx, current_player_idx |-> player_idx,
              result |-> FALSE, turned |-> FALSE]
        ELSE IF idx + 1 >= Len(phases)
        THEN [phase_idx |-> 0, current_player_idx |-> advance_turn(gs, player_idx),
              result |-> TRUE, turned |-> TRUE]
        ELSE [phase_idx |-> idx + 1, current_player_idx |-> player_idx,
              result |-> TRUE, turned |-> FALSE]

\* _advance_phase: the indexes it leaves and the value it returns.
advance_phase(flow, gs, idx, player_idx) ==
    LET phases == get_phases_for_state(flow, gs.current_state)
    IN  IF phases = << >>
        THEN [phase_idx |-> idx, current_player_idx |-> player_idx,
              result |-> FALSE, turned |-> FALSE]
        ELSE IF idx + 1 >= Len(phases)
        THEN [phase_idx |-> 0, current_player_idx |-> advance_turn(gs, player_idx),
              result |-> FALSE, turned |-> TRUE]
        ELSE [phase_idx |-> idx + 1, current_player_idx |-> player_idx,
              result |-> TRUE, turned |-> FALSE]

\* The state-change test comparing the previous name with itself.
state_changed_stale(gs, prev_state_name) == prev_state_name # prev_state_name

\* run, line 166: the effect left current_state different from prev_state_name.
state_changed(gs, prev_state_name) == gs.current_state # prev_state_name

(***************************************************************************)
(* The zone primitives called on their own: a game state is drawn from the *)
(* arrangements of one generated deck over the zones of a definition, and  *)
(* one primitive is called on it with arguments drawn from bounded sets.   *)
(***************************************************************************)
NoFlow == [initial_state |-> PyNone, states |-> << >>, transitions |-> << >>]

\* A deck type of the standard_suits template over `ranks`, which are also
\* its rank_hierarchy.
StandardDeckType(ranks) ==
    [name |-> "standard",
     composition |-> <<[type |-> "template", template |-> "standard_suits", values |-> ranks]>>,
     rank_hierarchy |-> [i \in 1..Len(ranks) |-> StrVal(ranks[i])]]

\* One deck of four cards; a shared deck zone, a shared pile, a hand per
\* player; a shared variable and a variable per player.
ZoneGame ==
    [deck_types |-> <<StandardDeckType(<<"A">>)>>,
     decks |-> <<[name |-> "main", type |-> "standard"]>>,
     zones |-> <<[name |-> "deck", per_player |-> FALSE, of_deck |-> "main"],
                 [name |-> "pile", per_player |-> FALSE, of_deck |-> PyNone],
                 [name |-> "hand", per_player |-> TRUE, of_deck |-> PyNone]>>,
     variables |-> <<[name |-> "round", per_player |-> FALSE, initial_value |-> IntVal(1)],
                     [name |-> "score", per_player |-> TRUE, initial_value |-> IntVal(0)]>>,
     setup |-> << >>,
     rules |-> << >>,
     flow |-> NoFlow]

\* The game state of `cgml` with `n` players in which the cards `order` lie
\* in the zones in turn, zone number i holding order[cut[i-1]+1 .. cut[i]].
Arrangement(cgml, n, order, cut) ==
    LET refs == AllZoneRefs(cgml, n)
        slice(ref) == LET i == CHOOSE j \in 1..Len(refs) : refs[j] = ref
                      IN  SubSeq(order, cut[i - 1] + 1, cut[i])
    IN  [players |->
            [p \in 0..(n - 1) |->
                [id |-> p,
                 variables |-> per_player_vars(cgml),
                 zones |-> [name \in ZoneNames(per_player_zone_defs(cgml)) |->
                              slice(ZoneRef(p, name))]]],
         shared_zones |->
            [name \in ZoneNames(shared_zone_defs(cgml)) |-> slice(ZoneRef(NoOwner, name))],
         shared_variables |-> shared_vars(cgml),
         current_state |-> PyNone]

Arrangements(cgml, n) ==
    LET deck == create_deck("main", cgml.decks[1], cgml.deck_types)
        z == Len(AllZoneRefs(cgml, n))
        cuts == {cut \in [0..z -> 0..Len(deck)] :
                    /\ cut[0] = 0
                    /\ cut[z] = Len(deck)
                    /\ \A i \in 1..z : cut[i - 1] <= cut[i]}
    IN  {Arrangement(cgml, n, order, cut) : order \in Shuffles(deck), cut \in cuts}

Counts == (0 - 1)..MaxCount

\* The record of one call of a primitive.
Call(op, from_zone, to_zone, to_zone_name, count, before, exc) ==
    [op |-> op, from_zone |-> from_zone, to_zone |-> to_zone,
     to_zone_name |-> to_zone_name, count |-> count, before |-> before, exc |-> exc]

NoCall == Call("None", ZoneRef(NoOwner, PyNone), ZoneRef(NoOwner, PyNone), PyNone, 0,
               [players |-> << >>, shared_zones |-> << >>, current_state |-> PyNone], "None")

ZonesInit ==
    /\ cgml_definition = ZoneGame
    /\ player_count \in 1..MaxPlayers
    /\ game_state \in Arrangements(cgml_definition, player_count)
    /\ current_player_idx = 0
    /\ phase_idx = 0
    /\ pc = "zones"
    /\ setup_idx = 1
    /\ last = NoCall

Refs == ZoneRefSet(cgml_definition, player_count)

ZoneFrame == UNCHANGED <<cgml_definition, player_count, current_player_idx, phase_idx, setup_idx>>

CallMoveCards ==
    /\ pc = "zones"
    /\ \E from_zone \in Refs, to_zone \in Refs, count \in Counts :
          /\ game_state' = move_cards(game_state, from_zone, to_zone, count)
          /\ last' = Call("move_cards", from_zone, to_zone, to_zone.name, count,
                          game_state, "None")
    /\ pc' = "returned"
    /\ ZoneFrame

CallDealCards ==
    /\ pc = "zones"
    /\ \E from_zone \in Refs, to_zone_name \in {"hand", "pile"}, count \in Counts :
          LET result == deal_cards(game_state, from_zone, to_zone_name, count)
          IN  /\ game_state' = result.gs
              /\ last' = Call("deal_cards", from_zone, from_zone, to_zone_name, count,
                              game_state, result.exc)
    /\ pc' = "returned"
    /\ ZoneFrame

CallDealAllCards ==
    /\ pc = "zones"
    /\ \E from_deck \in Refs, to_zone_name \in {"hand", "pile"} :
          LET result == deal_all_cards(game_state, from_deck, to_zone_name)
          IN  /\ game_state' = result.gs
              /\ last' = Call("deal_all_cards", from_deck, from_deck, to_zone_name, 0,
                              game_state, result.exc)
    /\ pc' = "returned"
    /\ ZoneFrame

CallShuffleZone ==
    /\ pc = "zones"
    /\ \E zone \in Refs :
          /\ game_state' \in shuffle_zone(game_state, zone)
          /\ last' = Call("shuffle_zone", zone, zone, zone.name, 0, game_state, "None")
    /\ pc' = "returned"
    /\ ZoneFrame

CallMoveAllCards ==
    /\ pc = "zones"
    /\ \E from_zone \in Refs, to_zone \in Refs :
          LET result == move_all_cards(game_state, from_zone, to_zone)
          IN  /\ game_state' = result.gs
              /\ last' = Call("move_all_cards", from_zone, to_zone, to_zone.name, 0,
                              game_state, result.exc)
    /\ pc' = "returned"
    /\ ZoneFrame

ZonesNext ==
    \/ CallMoveCards
    \/ CallMoveAllCards
    \/ CallDealCards
    \/ CallDealAllCards
    \/ CallShuffleZone

SpecZones == ZonesInit /\ [][ZonesNext]_vars

(***************************************************************************)
(* C9.  move_cards on two different zones with count >= 0 takes the first  *)
(* k = min(count, len(from)) cards off the front of from.cards and puts    *)
(* them, in the same order, at the back of to.cards; it raises nothing,    *)
(* also when count exceeds len(from).                                      *)
(***************************************************************************)
MoveCardsFifo ==
    (last.op = "move_cards" /\ last.from_zone # last.to_zone /\ last.count >= 0) =>
        LET old_from == Cards(last.before, last.from_zone)
            old_to == Cards(last.before, last.to_zone)
            k == IF last.count <= Len(old_from) THEN last.count ELSE Len(old_from)
        IN  /\ last.exc = "None"
            /\ Cards(game_state, last.from_zone) = SubSeq(old_from, k + 1, Len(old_from))
            /\ Cards(game_state, last.to_zone) = old_to \o SubSeq(old_from, 1, k)

\* A move of two cards out of a zone of three or more into a zone that held cards.
MoveCardsFifoWitness ==
    /\ last.op = "move_cards"
    /\ last.from_zone # last.to_zone
    /\ last.count = 2
    /\ Len(Cards(last.before, last.from_zone)) >= 3
    /\ Len(Cards(last.before, last.to_zone)) >= 1
    /\ Len(Cards(game_state, last.to_zone)) >= 3

\* A move asking for more cards than the zone holds.
MoveCardsShortWitness ==
    /\ last.op = "move_cards"
    /\ last.from_zone # last.to_zone
    /\ last.count > Len(Cards(last.before, last.from_zone))
    /\ Len(Cards(last.before, last.from_zone)) >= 2
    /\ Cards(game_state, last.from_zone) = << >>

(***************************************************************************)
(* C10.  deal_cards hands out the cards of `from` from the front, one at a *)
(* time, round by round and in player order within a round, and stops when *)
(* `from` is empty: card number j (0-based, j < min(n, count*k)) goes to   *)
(* the back of the to-zone of player j mod k.                              *)
(***************************************************************************)
\* The cards of `cards` at the 0-based positions j < m with j mod k = p, in order.
DealtTo(cards, m, k, p) ==
    [i \in 1..(IF m > p THEN ((m - p - 1) \div k) + 1 ELSE 0) |-> cards[(i - 1) * k + p + 1]]

\* What the claim says the zones hold after the call recorded in `last`.
DealtAsClaimed ==
    LET tz == last.to_zone_name
        k == player_count
        old_from == Cards(last.before, last.from_zone)
        n == Len(old_from)
        m == IF last.count <= 0 THEN 0 ELSE Min(n, last.count * k)
        rest == SubSeq(old_from, m + 1, n)
    IN  /\ last.exc = "None"
        /\ \A p \in 0..(k - 1) :
              Cards(game_state, ZoneRef(p, tz)) =
                 (IF ZoneRef(p, tz) = last.from_zone
                  THEN rest
                  ELSE Cards(last.before, ZoneRef(p, tz))) \o DealtTo(old_from, m, k, p)
        /\ (\A p \in 0..(k - 1) : ZoneRef(p, tz) # last.from_zone) =>
              Cards(game_state, last.from_zone) = rest

DealsIntoPlayerZones ==
    /\ last.op = "deal_cards"
    /\ \A p \in DOMAIN last.before.players : last.to_zone_name \in DOMAIN last.before.players[p].zones

DealsAllIntoPlayerZones ==
    /\ last.op = "deal_all_cards"
    /\ \A p \in DOMAIN last.before.players : last.to_zone_name \in DOMAIN last.before.players[p].zones

\* What the claim says the zones hold after the call recorded in `last`.
DealtAllAsClaimed ==
    LET tz == last.to_zone_name
        k == player_count
        old_from == Cards(last.before, last.from_zone)
        n == Len(old_from)
        dealt(p) == Len(Cards(game_state, ZoneRef(p, tz))) - Len(Cards(last.before, ZoneRef(p, tz)))
    IN  /\ last.exc = "None"
        /\ Cards(game_state, last.from_zone) = << >>
        /\ \A p \in 0..(k - 1) :
              Cards(game_state, ZoneRef(p, tz)) =
                 Cards(last.before, ZoneRef(p, tz)) \o DealtTo(old_from, n, k, p)
        /\ \A p, q \in 0..(k - 1) : dealt(p) - dealt(q) \in {0 - 1, 0, 1}

\* Violated when `from` is itself the to-zone of one of the players and
\* holds a card: with one player the call does not return.
DealAllRoundRobinAnyFrom == DealsAllIntoPlayerZones => DealtAllAsClaimed

\* The same for a `from` that is not the to-zone of any player.
DealAllRoundRobin ==
    (DealsAllIntoPlayerZones
       /\ \A p \in 0..(player_count - 1) : ZoneRef(p, last.to_zone_name) # last.from_zone)
    => DealtAllAsClaimed

\* deck [c1,c2,c3,c4] dealt out to two players: hands [c1,c3] and [c2,c4].
DealAllRoundRobinWitness ==
    LET deck == create_deck("main", cgml_definition.decks[1], cgml_definition.deck_types)
    IN  /\ last.op = "deal_all_cards"
        /\ last.from_zone = ZoneRef(NoOwner, "deck")
        /\ last.to_zone_name = "hand"
        /\ player_count = 2
        /\ Cards(last.before, last.from_zone) = deck
        /\ Cards(game_state, ZoneRef(0, "hand")) = <<deck[1], deck[3]>>
        /\ Cards(game_state, ZoneRef(1, "hand")) = <<deck[2], deck[4]>>
        /\ Cards(game_state, last.from_zone) = << >>

\* Three cards dealt out to two players whose hands held none: two and one.
DealAllUnevenWitness ==
    /\ last.op = "deal_all_cards"
    /\ last.from_zone = ZoneRef(NoOwner, "pile")
    /\ last.to_zone_name = "hand"
    /\ player_count = 2
    /\ Len(Cards(last.before, last.from_zone)) = 3
    /\ Len(Cards(game_state, ZoneRef(0, "hand"))) = 2
    /\ Len(Cards(game_state, ZoneRef(1, "hand"))) = 1

(***************************************************************************)
(* C12.  shuffle_zone leaves in zone.cards the same cards, each as often   *)
(* as before, in some order, and changes nothing else: every other zone's  *)
(* cards, all variables and current_state are as they were.                *)
(***************************************************************************)
CountIn(cards, c) == Cardinality({i \in 1..Len(cards) : cards[i] = c})

SameCards(a, b) ==
    /\ Len(a) = Len(b)
    /\ \A i \in 1..Len(a) : CountIn(a, a[i]) = CountIn(b, a[i])

ShufflePermutesOnly ==
    last.op = "shuffle_zone" =>
        /\ last.exc = "None"
        /\ SameCards(Cards(last.before, last.from_zone), Cards(game_state, last.from_zone))
        /\ \A ref \in Refs \ {last.from_zone} : Cards(game_state, ref) = Cards(last.before, ref)
        /\ DOMAIN game_state.shared_zones = DOMAIN last.before.shared_zones
        /\ \A p \in DOMAIN game_state.players :
              /\ game_state.players[p].id = last.before.players[p].id
              /\ game_state.players[p].variables = last.before.players[p].variables
              /\ DOMAIN game_state.players[p].zones = DOMAIN last.before.players[p].zones
        /\ DOMAIN game_state.players = DOMAIN last.before.players
        /\ game_state.shared_variables = last.before.shared_variables
        /\ game_state.current_state = last.before.current_state

\* A shuffle of a zone of three or more cards that left them in another order.
ShufflePermutesOnlyWitness ==
    /\ last.op = "shuffle_zone"
    /\ Len(Cards(last.before, last.from_zone)) >= 3
    /\ Cards(game_state, last.from_zone) # Cards(last.before, last.from_zone)
    /\ \E ref \in Refs \ {last.from_zone} : Cards(game_state, ref) # << >>

(***************************************************************************)
(* The definitions the simulator is run on: every combination of these     *)
(* components, setups, flows and rule sets.                                *)
(***************************************************************************)
ZoneDef(name, per_player, of_deck) ==
    [name |-> name, per_player |-> per_player, of_deck |-> of_deck]

\* Zone declarations: the deck claimed by one shared zone, by two shared
\* zones, by no zone, and by the per-player zone.
ZoneSets ==
    {<<ZoneDef("deck", FALSE, "main"), ZoneDef("pile", FALSE, PyNone), ZoneDef("hand", TRUE, PyNone)>>,
     <<ZoneDef("deck", FALSE, "main"), ZoneDef("pile", FALSE, "main"), ZoneDef("hand", TRUE, PyNone)>>,
     <<ZoneDef("hand", TRUE, PyNone), ZoneDef("deck", FALSE, PyNone), ZoneDef("pile", FALSE, PyNone)>>,
     <<ZoneDef("hand", TRUE, "main"), ZoneDef("deck", FALSE, PyNone), ZoneDef("pile", FALSE, PyNone)>>}

SetupAction(action, target, from_, to, count, from_deck) ==
    [action |-> action, target |-> target, from_ |-> from_, to |-> to, count |-> count,
     from_deck |-> from_deck]

Setups ==
    {<< >>,
     <<SetupAction("DEAL", << >>, <<"deck">>, <<"zones", "hand">>, 1, PyNone)>>,
     <<SetupAction("MOVE", << >>, <<"zones", "deck">>, <<"pile">>, 2, PyNone),
       SetupAction("SHUFFLE", <<"zones", "deck">>, << >>, << >>, 1, PyNone)>>,
     <<SetupAction("DEAL_ALL", << >>, << >>, <<"zones", "hand">>, 1, "main"),
       SetupAction("MOVE_ALL", << >>, <<"players", "0", "zones", "hand">>, <<"deck">>, 1, PyNone)>>,
     \* a DEAL_ALL of a deck no zone holds, between two moves
     <<SetupAction("MOVE", << >>, <<"zones", "deck">>, <<"pile">>, 1, PyNone),
       SetupAction("DEAL_ALL", << >>, << >>, <<"zones", "hand">>, 1, "spare"),
       SetupAction("MOVE_ALL", << >>, <<"pile">>, <<"deck">>, 1, PyNone)>>}

EffectAction(action, from_, to, count, target, state) ==
    [action |-> action, from_ |-> from_, to |-> to, count |-> count, target |-> target,
     state |-> state]

Move(from_, to, count) == EffectAction("MOVE", from_, to, count, << >>, PyNone)
MoveAll(from_, to) == EffectAction("MOVE_ALL", from_, to, 1, << >>, PyNone)
SetGameState(state) == EffectAction("SET_GAME_STATE", << >>, << >>, 1, << >>, state)
Shuffle(target) == EffectAction("SHUFFLE", << >>, << >>, 1, target, PyNone)
Unregistered == EffectAction("LOG", << >>, << >>, 1, << >>, PyNone)

PathOperand(parts) == [cls |-> "Operand", keys |-> {"path"}, path |-> Path(parts)]
ValueOperand(v) == [cls |-> "Operand", keys |-> {"value"}, value |-> v]
ValueCondition(v) == [cls |-> "Condition", keys |-> {"value"}, value |-> v]
IsEqual(a, b) == [cls |-> "Condition", keys |-> {"isEqual"}, isEqual |-> <<a, b>>]
IsGreaterThan(a, b) ==
    [cls |-> "Condition", keys |-> {"isGreaterThan"}, isGreaterThan |-> <<a, b>>]
IsLessThan(a, b) == [cls |-> "Condition", keys |-> {"isLessThan"}, isLessThan |-> <<a, b>>]
Not(c) == [cls |-> "Condition", keys |-> {"not_"}, not_ |-> c]
And(subs) == [cls |-> "Condition", keys |-> {"and_"}, and_ |-> subs]

CardCount(zone) == PathOperand(<<"shared_zones", zone, "card_count">>)
ZoneEmpty(zone) == IsEqual(CardCount(zone), ValueOperand(IntVal(0)))
ZoneHolds(zone) == IsGreaterThan(CardCount(zone), ValueOperand(IntVal(0)))

Rule(id, phase, condition, effect) ==
    [id |-> id, trigger |-> <<"on", "phase", phase>>, condition |-> condition,
     effect |-> effect]

RuleSets ==
    {<< >>,
     \* a rule legal in every phase A, B and C
     <<Rule("draw", "A", NoCondition, <<Move(<<"deck">>, <<"pile">>, 1)>>),
       Rule("keep", "B", NoCondition, <<Unregistered, Move(<<"pile">>, <<"players", "-1", "zones", "hand">>, 2)>>),
       Rule("rest", "C", NoCondition, << >>)>>,
     \* phase B legal only while the deck holds cards; C ends the game
     <<Rule("draw", "A", NoCondition, <<Move(<<"zones", "deck">>, <<"pile">>, 3)>>),
       Rule("back", "B", ZoneHolds("deck"), <<MoveAll(<<"pile">>, <<"hand">>)>>),
       Rule("end", "C", NoCondition, <<SetGameState(GameOver)>>)>>,
     \* effects that set the state, to declared states, the sentinel and an undeclared state
     <<Rule("quit", "A", NoCondition, <<SetGameState(GameOver)>>),
       Rule("score", "A", ZoneEmpty("deck"), <<SetGameState("Score")>>),
       Rule("draw", "A", ZoneHolds("deck"), <<Move(<<"deck">>, <<"pile">>, 2)>>),
       Rule("over", "B", NoCondition, <<SetGameState(GameOver), Move(<<"pile">>, <<"deck">>, 1)>>),
       Rule("away", "C", ValueCondition(BoolVal(TRUE)), <<SetGameState("Limbo")>>)>>,
     \* no rule for phase A; a rule for the phase "None"; a condition and an effect that raise
     <<Rule("mix", "B", And(<<Not(ZoneEmpty("deck")),
                               IsLessThan(CardCount("deck"), ValueOperand(IntVal(3)))>>),
            <<Shuffle(<<"deck">>)>>),
       Rule("spin", "B", ZoneEmpty("deck"), <<MoveAll(<<"pile">>, <<"zones", "pile">>)>>),
       Rule("idle", "None", NoCondition, <<SetGameState("Play")>>),
       Rule("lost", "C", ZoneHolds("ghost"), << >>),
       Rule("miss", "C", NoCondition, <<Move(<<"ghost">>, <<"pile">>, 1)>>)>>}

Transition(from_, to, condition) == [from_ |-> from_, to |-> to, condition |-> condition]

Flows ==
    {\* one state Play with phases [A, B] and no transitions
     [initial_state |-> "Play", states |-> [Play |-> <<"A", "B">>], transitions |-> << >>],
     \* conditional transitions, two of them from Score
     [initial_state |-> "Play",
      states |-> [Play |-> <<"A", "B">>, Score |-> <<"C">>],
      transitions |-> <<Transition("Play", "Score", ZoneEmpty("deck")),
                        Transition("Score", GameOver, ZoneEmpty("pile")),
                        Transition("Score", "Play", NoCondition)>>],
     \* transitions whose condition is always true or absent
     [initial_state |-> "Play",
      states |-> [Play |-> <<"A", "B">>, Score |-> <<"C">>],
      transitions |-> <<Transition("Play", "Score", NoCondition),
                        Transition("Play", GameOver, ValueCondition(BoolVal(TRUE))),
                        Transition(GameOver, "Play", NoCondition),
                        Transition("Score", GameOver, ValueCondition(BoolVal(TRUE)))>>],
     \* an initial state and a transition target the flow does not declare
     [initial_state |-> "Lobby",
      states |-> [Play |-> <<"A", "B">>, Score |-> << >>],
      transitions |-> <<Transition("Lobby", "Play", NoCondition),
                        Transition("Play", "Nowhere", ZoneEmpty("deck"))>>],
     \* a transition whose condition raises, after one that does not
     [initial_state |-> "Play",
      states |-> [Play |-> <<"A", "B">>, Score |-> <<"C">>],
      transitions |-> <<Transition("Play", "Score", ZoneEmpty("deck")),
                        Transition("Play", GameOver, ZoneEmpty("ghost")),
                        Transition("Score", "Play", NoCondition)>>]}

Definitions ==
    {[deck_types |-> <<StandardDeckType(<<"A">>)>>,
      decks |-> <<[name |-> "main", type |-> "standard"]>>,
      zones |-> zones,
      variables |-> << >>,
      setup |-> setup,
      rules |-> rules,
      flow |-> flow] :
     zones \in ZoneSets, setup \in Setups, rules \in RuleSets, flow \in Flows}

(***************************************************************************)
(* GameSimulator: construction (build, the setup actions one by one, the   *)
(* rest of __init__) and run, one action per loop iteration.               *)
(***************************************************************************)
\* What a step did: the state and indexes before it, and which parts of the iteration ran.
Step(name) ==
    [step |-> name,
     prev_state |-> game_state.current_state, prev_phase |-> phase_idx,
     prev_player |-> current_player_idx,
     collected |-> FALSE, legal |-> << >>, executed |-> 0, effect_state |-> PyNone,
     checked |-> FALSE, taken |-> 0, advanced |-> FALSE, returned |-> FALSE,
     turned |-> FALSE, exc |-> "None"]

Init ==
    /\ cgml_definition \in Definitions
    /\ player_count \in 1..MaxPlayers
    /\ game_state = build_game_state_from_cgml(cgml_definition, player_count)
    /\ current_player_idx = 0
    /\ phase_idx = 0
    /\ pc = "setup"
    /\ setup_idx = 1
    /\ last = [step |-> "build",
               prev_state |-> PyNone, prev_phase |-> 0, prev_player |-> 0,
               collected |-> FALSE, legal |-> << >>, executed |-> 0, effect_state |-> PyNone,
               checked |-> FALSE, taken |-> 0, advanced |-> FALSE, returned |-> FALSE,
               turned |-> FALSE, exc |-> "None"]

Fixed == UNCHANGED <<cgml_definition, player_count>>

\* Where an exception leaves the program.
After(exc) == IF exc = "NoReturn" THEN "hung" ELSE "raised"

\* run_setup_phase: perform_setup_action on the next action of the list.
SetupStep ==
    /\ pc = "setup"
    /\ setup_idx <= Len(cgml_definition.setup)
    /\ \E result \in perform_setup_action(cgml_definition,
                                          cgml_definition.setup[setup_idx], game_state) :
          /\ game_state' = result.gs
          /\ pc' = IF result.exc = "None" THEN "setup" ELSE After(result.exc)
          /\ last' = [Step("setup") EXCEPT !.exc = result.exc]
    /\ setup_idx' = setup_idx + 1
    /\ UNCHANGED <<current_player_idx, phase_idx>>
    /\ Fixed

\* __init__ after _initialize_state: the initial state, player 0, phase 0.
Construct ==
    /\ pc = "setup"
    /\ setup_idx > Len(cgml_definition.setup)
    /\ game_state' = [game_state EXCEPT !.current_state = cgml_definition.flow.initial_state]
    /\ current_player_idx' = 0
    /\ phase_idx' = 0
    /\ pc' = "loop"
    /\ last' = Step("init")
    /\ UNCHANGED setup_idx
    /\ Fixed

Legal == get_legal_actions(cgml_definition, game_state, phase_idx)

\* run: the game is over at the top of the loop.
RunGameOver ==
    /\ pc = "loop"
    /\ is_game_over(game_state)
    /\ pc' = "done"
    /\ last' = Step("run")
    /\ UNCHANGED <<game_state, current_player_idx, phase_idx, setup_idx>>
    /\ Fixed

\* run: a rule's condition raises while the legal actions are collected.
RunRaises ==
    /\ pc = "loop"
    /\ ~is_game_over(game_state)
    /\ Legal.exc # "None"
    /\ pc' = "raised"
    /\ last' = [Step("run") EXCEPT !.collected = TRUE, !.exc = Legal.exc]
    /\ UNCHANGED <<game_state, current_player_idx, phase_idx, setup_idx>>
    /\ Fixed

\* run: no legal action; the phase advances, or the loop ends.
RunNoLegal ==
    /\ pc = "loop"
    /\ ~is_game_over(game_state)
    /\ Legal.exc = "None"
    /\ Legal.legal = << >>
    /\ LET adv == advance_phase(cgml_definition.flow, game_state, phase_idx, current_player_idx)
       IN  /\ phase_idx' = adv.phase_idx
           /\ current_player_idx' = adv.current_player_idx
           /\ pc' = IF adv.result THEN "loop" ELSE "done"
           /\ last' = [Step("run") EXCEPT !.collected = TRUE, !.advanced = TRUE,
                                          !.returned = adv.result, !.turned = adv.turned]
    /\ UNCHANGED <<game_state, setup_idx>>
    /\ Fixed

\* run: one of the legal actions is chosen and its effect list executed; then
\* the state-change test, the declared transitions and the phase advance.
RunExecute ==
    /\ pc = "loop"
    /\ ~is_game_over(game_state)
    /\ Legal.exc = "None"
    /\ \E choice \in 1..Len(Legal.legal) :
         \E result \in execute_effect(cgml_definition.rules[Legal.legal[choice]].effect,
                                      game_state) :
            LET did == [Step("run") EXCEPT !.collected = TRUE, !.legal = Legal.legal,
                                           !.executed = Legal.legal[choice],
                                           !.effect_state = result.gs.current_state,
                                           !.exc = result.exc]
                check == check_state_transitions(cgml_definition, result.gs)
                adv == advance_phase(cgml_definition.flow, result.gs, phase_idx,
                                     current_player_idx)
            IN  IF result.exc # "None"
                THEN /\ game_state' = result.gs
                     /\ pc' = After(result.exc)
                     /\ last' = did
                     /\ UNCHANGED <<current_player_idx, phase_idx>>
                ELSE IF state_changed(result.gs, game_state.current_state)
                THEN /\ game_state' = result.gs
                     /\ phase_idx' = 0
                     /\ pc' = "loop"
                     /\ last' = did
                     /\ UNCHANGED current_player_idx
                ELSE IF check.exc # "None"
                THEN /\ game_state' = result.gs
                     /\ pc' = "raised"
                     /\ last' = [did EXCEPT !.checked = TRUE, !.exc = check.exc]
                     /\ UNCHANGED <<current_player_idx, phase_idx>>
                ELSE IF check.taken # 0
                THEN /\ game_state' =
                          [result.gs EXCEPT !.current_state =
                              cgml_definition.flow.transitions[check.taken].to]
                     /\ phase_idx' = 0
                     /\ pc' = IF is_game_over(game_state') THEN "done" ELSE "loop"
                     /\ last' = [did EXCEPT !.checked = TRUE, !.taken = check.taken]
                     /\ UNCHANGED current_player_idx
                ELSE /\ game_state' = result.gs
                     /\ phase_idx' = adv.phase_idx
                     /\ current_player_idx' = adv.current_player_idx
                     /\ pc' = "loop"
                     /\ last' = [did EXCEPT !.checked = TRUE, !.advanced = TRUE,
                                            !.returned = adv.result, !.turned = adv.turned]
    /\ UNCHANGED setup_idx
    /\ Fixed

Next == SetupStep \/ Construct \/ RunGameOver \/ RunRaises \/ RunNoLegal \/ RunExecute

Spec == Init /\ [][Next]_vars

(***************************************************************************)
(* The run loop.  `last` tells what the latest iteration did.              *)
(***************************************************************************)
Flow == cgml_definition.flow

\* Some zone holds a card.
SomeCards ==
    \E ref \in ZoneRefSet(cgml_definition, player_count) : Cards(game_state, ref) # << >>

(***************************************************************************)
(* C1.  An iteration of run that begins with current_state = "GameOver"    *)
(* stops the loop: it collects no legal actions, executes no effect list,  *)
(* evaluates no transition, and leaves current_state, phase_idx,           *)
(* current_player_idx and the contents of every zone as they were.         *)
(***************************************************************************)
GameOverStops ==
    [][(pc = "loop" /\ game_state.current_state = GameOver) =>
          /\ pc' = "done"
          /\ ~last'.collected /\ last'.executed = 0 /\ ~last'.checked
          /\ game_state' = game_state
          /\ phase_idx' = phase_idx
          /\ current_player_idx' = current_player_idx]_vars

\* The loop has stopped on the sentinel, at the top of an iteration, with cards in the zones.
GameOverStopsWitness ==
    /\ pc = "done"
    /\ last.step = "run" /\ ~last.collected
    /\ game_state.current_state = GameOver
    /\ SomeCards

(***************************************************************************)
(* C2.  When the effect list executed in an iteration leaves current_state *)
(* different from what it was, the iteration sets phase_idx to 0, checks   *)
(* no declared transition, advances neither the phase nor the player, and  *)
(* the loop restarts; if the effect set "GameOver", the next iteration     *)
(* stops the loop, whatever transitions are declared.                      *)
(***************************************************************************)
EffectChangedState(l) ==
    l.step = "run" /\ l.executed # 0 /\ l.exc = "None" /\ l.effect_state # l.prev_state

StateChangeRestarts ==
    [][/\ EffectChangedState(last') =>
             /\ game_state'.current_state = last'.effect_state
             /\ phase_idx' = 0
             /\ ~last'.checked /\ last'.taken = 0
             /\ ~last'.advanced
             /\ current_player_idx' = current_player_idx
             /\ pc' = "loop"
       /\ (pc = "loop" /\ EffectChangedState(last) /\ last.effect_state = GameOver) =>
             /\ pc' = "done"
             /\ ~last'.collected /\ ~last'.checked
             /\ game_state' = game_state]_vars

\* An effect has set "GameOver" in state Play, from which a transition without
\* condition is declared, as is one from "GameOver".
StateChangeRestartsWitness ==
    /\ pc = "loop"
    /\ EffectChangedState(last)
    /\ last.prev_state = "Play"
    /\ game_state.current_state = GameOver
    /\ \E i, j \in 1..Len(Flow.transitions) :
          /\ Flow.transitions[i].from_ = "Play" /\ Flow.transitions[i].condition.cls = "None"
          /\ Flow.transitions[i].to # GameOver
          /\ Flow.transitions[j].from_ = GameOver /\ Flow.transitions[j].condition.cls = "None"

(***************************************************************************)
(* C3.  _check_state_transitions takes the first declared transition whose *)
(* from_ is current_state and whose condition is absent or true: it sets   *)
(* current_state to its `to` and phase_idx to 0 and leaves the player;     *)
(* no later one is taken; when none matches, current_state stays and       *)
(* phase_idx is left to _advance_phase.                                    *)
(***************************************************************************)
\* The game state the check of the latest iteration was made on.
CheckedState == [game_state EXCEPT !.current_state = last.effect_state]

\* The declared transitions from the checked state whose condition is absent or true.
Matching ==
    {i \in 1..Len(Flow.transitions) :
        /\ Flow.transitions[i].from_ = last.effect_state
        /\ ConditionHolds(cgml_definition, Flow.transitions[i].condition, CheckedState).exc = "None"
        /\ Truthy(ConditionHolds(cgml_definition, Flow.transitions[i].condition,
                                 CheckedState).val)}

FirstMatchingTransitionTaken ==
    (last.step = "run" /\ last.checked /\ last.exc = "None") =>
        IF Matching = {}
        THEN /\ last.taken = 0
             /\ game_state.current_state = last.effect_state
             /\ last.advanced
             /\ phase_idx = advance_phase(Flow, game_state, last.prev_phase,
                                          last.prev_player).phase_idx
        ELSE /\ last.taken \in Matching
             /\ \A i \in Matching : last.taken <= i
             /\ game_state.current_state = Flow.transitions[last.taken].to
             /\ phase_idx = 0
             /\ current_player_idx = last.prev_player
             /\ ~last.advanced

\* Two declared transitions matched, to different states, and the first was taken.
FirstMatchingTransitionTakenWitness ==
    /\ last.step = "run" /\ last.checked /\ last.exc = "None"
    /\ last.taken \in Matching
    /\ \E i \in Matching :
          i > last.taken /\ Flow.transitions[i].to # Flow.transitions[last.taken].to

(***************************************************************************)
(* C4.  In a state with a declared transition whose condition is always    *)
(* true or absent, an iteration that executes an effect list (without an   *)
(* exception and without changing current_state) checks the transitions,   *)
(* takes that transition or an earlier declared one that matches, and      *)
(* advances neither the phase nor the player; the phase (and on the wrap   *)
(* the player) is advanced there only by iterations without legal action,  *)
(* which check no transition.                                              *)
(***************************************************************************)
AlwaysTrue(condition) ==
    \/ condition.cls = "None"
    \/ condition.keys = {"value"} /\ condition.value = BoolVal(TRUE)

\* The declared transitions from state_name whose condition is always true or absent.
AlwaysFiring(state_name) ==
    {i \in 1..Len(Flow.transitions) :
        Flow.transitions[i].from_ = state_name /\ AlwaysTrue(Flow.transitions[i].condition)}

IsPlayAB ==
    /\ Flow.initial_state = "Play"
    /\ DOMAIN Flow.states = {"Play"}
    /\ Flow.states["Play"] = <<"A", "B">>
    /\ Flow.transitions = << >>

\* The latest iteration began and ended in Play and raised nothing.
StayedInPlay ==
    /\ last.step = "run"
    /\ last.prev_state = "Play" /\ game_state.current_state = "Play"
    /\ last.exc = "None"

\* The phases alternate and the player advances exactly on the wrap.
PhasesAlternate ==
    /\ (last.step = "run" /\ current_player_idx # last.prev_player) =>
          (last.advanced /\ last.prev_phase = 1)
    /\ StayedInPlay =>
          /\ last.advanced
          /\ phase_idx = 1 - last.prev_phase
          /\ current_player_idx = IF last.prev_phase = 1
                                  THEN (last.prev_player + 1) % player_count
                                  ELSE last.prev_player

\* The claim as stated: the cycle never ends.
PhasesCycleForever ==
    IsPlayAB => (PhasesAlternate /\ (StayedInPlay => pc = "loop"))

PhasesCycleWhileLegal ==
    IsPlayAB =>
        /\ PhasesAlternate
        /\ StayedInPlay =>
              pc = (IF last.executed = 0 /\ last.prev_phase = 1 THEN "done" ELSE "loop")

\* With two players: an effect was executed in phase B, the phase wrapped to A,
\* the player went from 1 to 0 and the loop goes on.
PhasesCycleWhileLegalWitness ==
    /\ IsPlayAB /\ StayedInPlay
    /\ player_count = 2
    /\ last.executed # 0
    /\ last.prev_phase = 1 /\ phase_idx = 0
    /\ last.prev_player = 1 /\ current_player_idx = 0
    /\ pc = "loop"

(***************************************************************************)
(* C6.  An iteration with current_state not "GameOver" and no legal rule   *)
(* for the current phase executes no effect and checks no transition; if   *)
(* the phase list of current_state has a next phase, phase_idx advances by *)
(* one and the loop goes on; otherwise the loop stops.  The loop stops     *)
(* only so, or on current_state = "GameOver".                              *)
(***************************************************************************)
\* Every rule triggered by the current phase has a condition that evaluates false.
NoRuleLegal ==
    \A i \in 1..Len(cgml_definition.rules) :
       Triggered(cgml_definition.rules[i], current_phase(Flow, game_state, phase_idx)) =>
          /\ ConditionHolds(cgml_definition, cgml_definition.rules[i].condition,
                            game_state).exc = "None"
          /\ ~Truthy(ConditionHolds(cgml_definition, cgml_definition.rules[i].condition,
                                    game_state).val)

HasNextPhase == phase_idx + 1 < Len(get_phases_for_state(Flow, game_state.current_state))

NoLegalAdvancesOrStops ==
    [][/\ (pc = "loop" /\ game_state.current_state # GameOver /\ NoRuleLegal) =>
             /\ last'.collected /\ last'.executed = 0 /\ ~last'.checked
             /\ game_state' = game_state
             /\ IF HasNextPhase
                THEN /\ phase_idx' = phase_idx + 1
                     /\ current_player_idx' = current_player_idx
                     /\ pc' = "loop"
                ELSE pc' = "done"
       /\ (pc = "loop" /\ pc' = "done") =>
             \/ game_state'.current_state = GameOver
             \/ NoRuleLegal /\ ~HasNextPhase]_vars

\* The loop has stopped in a declared state other than the sentinel, after an
\* iteration without legal action in the last of two phases.
NoLegalAdvancesOrStopsWitness ==
    /\ pc = "done"
    /\ last.step = "run" /\ last.collected /\ last.executed = 0
    /\ game_state.current_state \in DOMAIN Flow.states
    /\ Len(get_phases_for_state(Flow, game_state.current_state)) = 2
    /\ last.prev_phase = 1

(***************************************************************************)
(* C7.  After construction and setup, and after every effect, every card   *)
(* generated for a deck is in exactly one zone, once.                      *)
(***************************************************************************)
\* The places (zone, position) at which the card lies.
Places(gs, card) ==
    UNION {{<<ref, i>> : i \in {j \in 1..Len(Cards(gs, ref)) : Cards(gs, ref)[j] = card}} :
           ref \in ZoneRefSet(cgml_definition, player_count)}

EveryCardInOneZone ==
    (pc \in {"loop", "done"}) =>
        \A card \in GeneratedCards(cgml_definition) : Cardinality(Places(game_state, card)) = 1

(***************************************************************************)
(* C8.  After construction, current_state is always a key of flow.states   *)
(* or "GameOver".                                                          *)
(***************************************************************************)
CurrentStateDeclared ==
    (pc \in {"loop", "done"}) =>
        game_state.current_state \in (DOMAIN Flow.states) \cup {GameOver}

(***************************************************************************)
(* The engine called on its own: execute_effect, evaluate_condition,       *)
(* resolve_operand and resolve_path on the game states of a definition     *)
(* with one deck of four cards, laid out over its zones in every way.      *)
(***************************************************************************)
RankLadder == <<"2", "3", "10", "J", "Q", "K", "A">>

\* A deck type of four cards whose rank hierarchy is `ranks`.
LadderDeckType(name, ranks) ==
    [name |-> name,
     composition |-> <<[type |-> "template", template |-> "standard_suits", values |-> <<"A">>]>>,
     rank_hierarchy |-> ranks]

EngineGame(deck_types) ==
    [ZoneGame EXCEPT !.deck_types = deck_types,
                     !.decks = <<[name |-> "main", type |-> "standard"]>>,
                     !.flow = [initial_state |-> "Play",
                               states |-> [Play |-> <<"A", "B">>],
                               transitions |-> << >>]]

EngineGames ==
    {\* one deck type, with the ladder as its hierarchy
     EngineGame(<<LadderDeckType("standard", [i \in 1..Len(RankLadder) |-> StrVal(RankLadder[i])])>>),
     \* two deck types: the first declared one ranks K below 2, and 10 as a number
     EngineGame(<<LadderDeckType("standard", <<StrVal("K"), IntVal(10), StrVal("2")>>),
                  LadderDeckType("other", [i \in 1..Len(RankLadder) |-> StrVal(RankLadder[i])])>>),
     \* no deck type: the deck has no cards
     EngineGame(<< >>)}

\* The game states of `cgml` with `n` players after construction in the
\* state Play, the deck in its generated order cut over the zones.
EngineStates(cgml, n) ==
    LET deck == create_deck("main", cgml.decks[1], cgml.deck_types)
        z == Len(AllZoneRefs(cgml, n))
        cuts == {cut \in [0..z -> 0..Len(deck)] :
                    /\ cut[0] = 0
                    /\ cut[z] = Len(deck)
                    /\ \A i \in 1..z : cut[i - 1] <= cut[i]}
    IN  {[Arrangement(cgml, n, deck, cut) EXCEPT !.current_state = cgml.flow.initial_state] :
            cut \in cuts}

\* The record of one call of the engine; context is the position in Contexts
\* of the context the call was given.
EngineCall(op, arg, path, before, exc, val) ==
    [op |-> op, arg |-> arg, path |-> path, before |-> before, exc |-> exc, val |-> val,
     context |-> 1]

EngineInit ==
    /\ cgml_definition \in EngineGames
    /\ player_count \in 1..MaxPlayers
    /\ game_state \in EngineStates(cgml_definition, player_count)
    /\ current_player_idx = 0
    /\ phase_idx = 0
    /\ pc = "engine"
    /\ setup_idx = 1
    /\ last = EngineCall("None", << >>, NonePath, game_state, "None", NoneVal)

\* The actions effect lists are made of.
EffectActions ==
    {Move(<<"deck">>, <<"pile">>, 1),
     MoveAll(<<"pile">>, <<"players", "0", "zones", "hand">>),
     SetGameState("Score"),
     Move(<<"ghost">>, <<"pile">>, 1),
     Unregistered}

MaxEffects == 3

EffectLists ==
    UNION {[1..n -> EffectActions] : n \in 0..MaxEffects}

CallExecuteEffect ==
    /\ pc = "engine"
    /\ \E effect_list \in EffectLists :
          \E result \in execute_effect(effect_list, game_state) :
             /\ game_state' = result.gs
             /\ last' = EngineCall("execute_effect", effect_list, NonePath, game_state,
                                   result.exc, NoneVal)
    /\ pc' = "returned"
    /\ ZoneFrame

\* The values resolve_path is called on: the game state, and values inside
\* it and beside it of each kind (object, dict, list, scalar).
Roots(cgml, gs) ==
    <<GameStateValue(cgml, gs),
      GameStateValue(cgml, gs).get.shared_zones,
      GameStateValue(cgml, gs).get.players,
      ZoneValue(cgml, gs, ZoneRef(NoOwner, "deck")),
      DictVal(<< >>, [i \in {0, 1} |-> StrVal("K")]),
      ListVal(<<DictVal([a |-> ListVal(<<IntVal(2), IntVal(3)>>)], << >>)>>),
      StrVal("Play")>>

\* path.split('.') of the paths of the calls, and the path None.
Paths ==
    {NonePath, Path(<<"">>),
     Path(<<"shared_zones", "deck", "card_count">>), Path(<<"shared_zones", "ghost">>),
     Path(<<"players", "0", "zones", "hand", "cards", "-1">>),
     Path(<<"players", "3">>), Path(<<"players", "-3">>), Path(<<"players", "x">>),
     Path(<<"current_state", "x">>), Path(<<"cards", "0", "rank">>),
     Path(<<"deck", "cards", "3">>), Path(<<"0">>), Path(<<"0", "a", "1">>),
     Path(<<"0", "a", "2">>), Path(<<"2">>), Path(<<"a">>)}

CallResolvePath ==
    /\ pc = "engine"
    /\ \E r \in 1..Len(Roots(cgml_definition, game_state)), path \in Paths :
          LET root == Roots(cgml_definition, game_state)[r]
              result == resolve_path(root, path)
          IN  last' = EngineCall("resolve_path", root, path, game_state, result.exc, result.val)
    /\ pc' = "returned"
    /\ UNCHANGED game_state
    /\ ZoneFrame

\* The values compared: rank labels as strings and as numbers.
RankValues ==
    {StrVal("K"), StrVal("Q"), StrVal("2"), StrVal("10"), IntVal(10), IntVal(2), IntVal(5),
     BoolVal(TRUE)}

\* The keys of a node whose only field is `key`.
Node(cls, key, field) ==
    CASE key = "isEqual" -> [cls |-> cls, keys |-> {key}, isEqual |-> field]
      [] key = "isGreaterThan" -> [cls |-> cls, keys |-> {key}, isGreaterThan |-> field]
      [] key = "isLessThan" -> [cls |-> cls, keys |-> {key}, isLessThan |-> field]
      [] key = "and_" -> [cls |-> cls, keys |-> {key}, and_ |-> field]
      [] key = "or_" -> [cls |-> cls, keys |-> {key}, or_ |-> field]
      [] key = "not_" -> [cls |-> cls, keys |-> {key}, not_ |-> field]
      [] key = "max_" -> [cls |-> cls, keys |-> {key}, max_ |-> field]
      [] key = "min_" -> [cls |-> cls, keys |-> {key}, min_ |-> field]
      [] key = "sum_" -> [cls |-> cls, keys |-> {key}, sum_ |-> field]
      [] key = "count" -> [cls |-> cls, keys |-> {key}, count |-> field]
      [] key = "value" -> [cls |-> cls, keys |-> {key}, value |-> field]
      [] key = "path" -> [cls |-> cls, keys |-> {key}, path |-> field]
      [] key = "ref" -> [cls |-> cls, keys |-> {key}, ref |-> field]

\* The comparisons of two values, as nodes of class cls.
Comparisons(cls) ==
    {Node(cls, key, <<ValueOperand(a), ValueOperand(b)>>) :
        key \in {"isEqual", "isGreaterThan", "isLessThan"}, a \in RankValues, b \in RankValues}

\* A node none of whose fields is set.
Bare(cls) == [cls |-> cls, keys |-> {}]

\* The operand lists of the nodes with one: numbers, a rank label beside a
\* number, a zone's cards, a path that does not resolve.
OperandLists ==
    {<< >>, <<ValueOperand(IntVal(2))>>, <<ValueOperand(IntVal(2)), CardCount("deck")>>,
     <<ValueOperand(StrVal("K")), ValueOperand(IntVal(2))>>,
     <<PathOperand(<<"players", "0", "zones", "hand", "cards">>)>>,
     <<ValueOperand(IntVal(5)), CardCount("ghost")>>}

\* The subcondition lists of and_ and or_.
ConditionLists ==
    {<< >>, <<ValueCondition(IntVal(0)), ZoneHolds("ghost")>>,
     <<ValueCondition(StrVal("K")), ZoneHolds("ghost")>>,
     <<ZoneHolds("deck"), ValueCondition(IntVal(5))>>}

\* One node of class cls for each field an expression node can have.
Variants(cls) ==
    {Node(cls, "value", v) : v \in {IntVal(0), IntVal(5), StrVal("K"), BoolVal(FALSE)}}
    \cup {Node(cls, "path", Path(parts)) :
            parts \in {<<"shared_zones", "deck", "card_count">>, <<"shared_zones", "ghost">>,
                       <<"players", "0", "zones", "hand", "cards">>}}
    \cup {Node(cls, "ref", name) : name \in {"card", "other"}}
    \cup {Node(cls, key, <<ValueOperand(StrVal("K")), CardCount("deck")>>) :
            key \in {"isEqual", "isGreaterThan", "isLessThan"}}
    \cup {Node(cls, key, subs) : key \in {"and_", "or_"}, subs \in ConditionLists}
    \cup {Node(cls, "not_", sub) : sub \in {ValueCondition(IntVal(0)), ZoneHolds("ghost")}}
    \cup {Node(cls, key, operands) :
            key \in {"max_", "min_", "sum_", "count"}, operands \in OperandLists}

\* The context of a call: none, and one that binds `card`.
Contexts == << << >>, [card |-> StrVal("K")] >>

Conditions ==
    Comparisons("Condition")
    \cup Variants("Condition")
    \cup {Bare("Condition"), And(<< >>), Not(ValueCondition(BoolVal(TRUE))),
          And(<<Bare("Condition")>>), Not(Bare("Condition")), ZoneHolds("deck"),
          ZoneHolds("ghost"), ValueCondition(IntVal(0))}

Operands ==
    Comparisons("Operand")
    \cup Variants("Operand")
    \cup {Bare("Operand"), ValueOperand(StrVal("K")), CardCount("deck"), CardCount("ghost"),
          PathOperand(<<"players", "0", "zones", "hand", "cards">>)}

CallEvaluateCondition ==
    /\ pc = "engine"
    /\ \E cond \in Conditions, c \in 1..Len(Contexts) :
          LET result == evaluate_condition(cgml_definition, cond, game_state, Contexts[c])
          IN  last' = [EngineCall("evaluate_condition", cond, NonePath, game_state,
                                  result.exc, result.val) EXCEPT !.context = c]
    /\ pc' = "returned"
    /\ UNCHANGED game_state
    /\ ZoneFrame

CallResolveOperand ==
    /\ pc = "engine"
    /\ \E operand \in Operands, c \in 1..Len(Contexts) :
          LET result == resolve_operand(cgml_definition, operand, game_state, Contexts[c])
          IN  last' = [EngineCall("resolve_operand", operand, NonePath, game_state,
                                  result.exc, result.val) EXCEPT !.context = c]
    /\ pc' = "returned"
    /\ UNCHANGED game_state
    /\ ZoneFrame

EngineNext ==
    CallExecuteEffect \/ CallResolvePath \/ CallEvaluateCondition \/ CallResolveOperand

SpecEngine == EngineInit /\ [][EngineNext]_vars

(***************************************************************************)
(* C13.  execute_effect walks the action list in order; an action whose    *)
(* name is not registered is skipped, raising nothing and changing         *)
(* nothing, and the registered actions before and after it are each        *)
(* dispatched once, in list order.                                         *)
(***************************************************************************)
\* The registered action `action_def` called on gs.
Registered(gs, action_def) ==
    CASE action_def.action = "MOVE" -> move_action(gs, action_def)
      [] action_def.action = "MOVE_ALL" -> move_all_action(gs, action_def)
      [] action_def.action = "SET_GAME_STATE" -> set_game_state_action(gs, action_def)
      [] action_def.action = "SHUFFLE" -> shuffle_action(gs, action_def)

\* Each action of `actions` called once, in order, until one raises.
RECURSIVE EachOnceInOrder(_, _)
EachOnceInOrder(actions, gs) ==
    IF actions = << >> THEN {Returned(gs)}
    ELSE UNION {IF first.exc # "None" THEN {first}
                ELSE EachOnceInOrder(Tail(actions), first.gs) :
                first \in Registered(gs, Head(actions))}

UnregisteredSkipped ==
    last.op = "execute_effect" =>
        LET registered == SelectSeq(last.arg, LAMBDA a : a.action \in ACTION_REGISTRY)
        IN  /\ [gs |-> game_state, exc |-> last.exc] \in EachOnceInOrder(registered, last.before)
            /\ (registered = << >> => game_state = last.before /\ last.exc = "None")

\* A list with a registered action before and after an unregistered one, both
\* of which changed the game state.
UnregisteredSkippedWitness ==
    /\ last.op = "execute_effect"
    /\ Len(last.arg) = 3
    /\ last.arg[1].action = "MOVE"
    /\ last.arg[2].action \notin ACTION_REGISTRY
    /\ last.arg[3].action = "SET_GAME_STATE"
    /\ last.exc = "None"
    /\ Len(Cards(game_state, ZoneRef(NoOwner, "pile"))) =
          Len(Cards(last.before, ZoneRef(NoOwner, "pile"))) + 1
    /\ game_state.current_state = "Score"
    /\ last.before.current_state # "Score"

(***************************************************************************)
(* C15.  During run the game state (zone cards, player and shared          *)
(* variables, current_state) changes only inside execute_effect:           *)
(* collecting the legal actions, checking the declared transitions and     *)
(* advancing the phase or the player leave it as it is.                    *)
(***************************************************************************)
\* The game states execute_effect can leave when run executes one of the
\* legal actions of the current state; none when there is no legal action.
EffectOutcomes ==
    IF Legal.exc # "None" THEN {}
    ELSE UNION {execute_effect(cgml_definition.rules[Legal.legal[choice]].effect, game_state) :
                   choice \in 1..Len(Legal.legal)}

\* The targets of the declared transitions from the state `name`.
TargetsFrom(name) ==
    {cgml_definition.flow.transitions[i].to :
        i \in {j \in 1..Len(cgml_definition.flow.transitions) :
                  cgml_definition.flow.transitions[j].from_ = name}}

\* Violated when a declared transition is taken: _check_state_transitions
\* assigns current_state.
OnlyEffectsMutate ==
    [][pc = "loop" =>
          \/ game_state' = game_state
          \/ \E result \in EffectOutcomes : game_state' = result.gs]_vars

\* Zones and variables change only inside execute_effect; current_state is
\* also set by _check_state_transitions, to the target of a declared
\* transition from the state the effect left, and only when the effect
\* raised nothing and did not change current_state itself.
OnlyEffectsAndTransitionsMutate ==
    [][pc = "loop" =>
          \/ game_state' = game_state
          \/ \E result \in EffectOutcomes :
                \/ game_state' = result.gs
                \/ /\ result.exc = "None"
                   /\ result.gs.current_state = game_state.current_state
                   /\ \E to \in TargetsFrom(result.gs.current_state) :
                         game_state' = [result.gs EXCEPT !.current_state = to]]_vars

\* An iteration whose effect moved cards and after which a declared
\* transition changed current_state.
OnlyEffectsAndTransitionsMutateWitness ==
    /\ last.step = "run"
    /\ last.executed # 0
    /\ last.taken # 0
    /\ cgml_definition.rules[last.executed].effect # << >>
    /\ cgml_definition.rules[last.executed].effect[1].action = "MOVE"
    /\ game_state.current_state # last.prev_state
    /\ last.effect_state = last.prev_state

(***************************************************************************)
(* C16.  An error raised while a rule's condition is evaluated in          *)
(* get_legal_actions, or a transition's condition in                       *)
(* _check_state_transitions, is not caught: it leaves run, and after it no *)
(* effect is executed and phase, player and state stay as they were.       *)
(***************************************************************************)
\* The condition of a rule triggered by the current phase raises.
RuleRaises ==
    \E i \in 1..Len(cgml_definition.rules) :
       /\ Triggered(cgml_definition.rules[i],
                    current_phase(cgml_definition.flow, game_state, phase_idx))
       /\ cgml_definition.rules[i].condition.cls # "None"
       /\ evaluate_condition(cgml_definition, cgml_definition.rules[i].condition,
                             game_state, << >>).exc # "None"

\* In the state gs the scan of the declared transitions comes to a condition
\* that raises before it comes to one that is absent or true.
TransitionRaises(gs) ==
    LET ts == cgml_definition.flow.transitions
        from_here == {i \in 1..Len(ts) : ts[i].from_ = gs.current_state}
        result(i) == evaluate_condition(cgml_definition, ts[i].condition, gs, << >>)
    IN  \E i \in from_here :
           /\ ts[i].condition.cls # "None"
           /\ result(i).exc # "None"
           /\ \A j \in from_here :
                 j < i => /\ ts[j].condition.cls # "None"
                          /\ result(j).exc = "None"
                          /\ ~Truthy(result(j).val)

\* The last iteration executed an effect list that raised nothing and left
\* current_state as it was, so the declared transitions were checked.
TransitionsWereChecked ==
    /\ last.step = "run"
    /\ last.executed # 0
    /\ last.exc = "None" \/ last.checked
    /\ last.effect_state = last.prev_state

\* The run has stopped on the error; phase, player and state are those the
\* iteration started with.
HaltedInPlace ==
    /\ pc = "raised"
    /\ last.exc # "None"
    /\ ~last.advanced
    /\ last.taken = 0
    /\ phase_idx = last.prev_phase
    /\ current_player_idx = last.prev_player
    /\ game_state.current_state = last.prev_state

TransitionErrorHalts ==
    (TransitionsWereChecked
       /\ TransitionRaises([game_state EXCEPT !.current_state = last.prev_state]))
    => (HaltedInPlace /\ last.checked)

EvaluationErrorsHalt ==
    [][/\ (pc = "loop" /\ ~is_game_over(game_state) /\ RuleRaises) =>
             /\ HaltedInPlace'
             /\ last'.executed = 0
             /\ game_state' = game_state
        /\ TransitionErrorHalts'
        /\ pc # "raised"]_vars

\* A run stopped by a rule's condition that raised.
RuleErrorWitness ==
    /\ pc = "raised"
    /\ last.step = "run"
    /\ last.collected
    /\ last.executed = 0
    /\ last.exc = "KeyError"

\* A run stopped by a transition's condition that raised, after an effect.
TransitionErrorWitness ==
    /\ pc = "raised"
    /\ last.step = "run"
    /\ last.executed # 0
    /\ last.checked
    /\ last.exc # "None"

(***************************************************************************)
(* C17.  resolve_path on a path without segments is the identity: for      *)
(* every root, resolve_path(root, None) and resolve_path(root, "") return  *)
(* the root itself and raise nothing.                                      *)
(***************************************************************************)
\* path.split('.') of the empty string: one segment, the empty string.
EmptyPath == Path(<<"">>)

EmptyPathIsIdentity ==
    (last.op = "resolve_path" /\ last.path \in {NonePath, EmptyPath}) =>
        /\ last.exc = "None"
        /\ last.val = last.arg

\* The half that holds: the path None returns the root.
NonePathIsIdentity ==
    (last.op = "resolve_path" /\ last.path = NonePath) =>
        /\ last.exc = "None"
        /\ last.val = last.arg

(***************************************************************************)
(* C18.  resolve_path reports its four failure conditions (a key missing   *)
(* from a mapping, a segment that is no integer on a sequence, an index    *)
(* out of bounds, a segment nothing can resolve) with four error kinds, no *)
(* two the same; an index out of range always gives IndexError.            *)
(***************************************************************************)
\* The value and the segment at which the walk of `parts` from `current` fails.
RECURSIVE FailsAt(_, _)
FailsAt(current, parts) ==
    IF ResolveStep(current, Head(parts)).exc # "None"
    THEN [current |-> current, part |-> Head(parts)]
    ELSE FailsAt(ResolveStep(current, Head(parts)).val, Tail(parts))

\* The failure condition of a segment on a value.
FailureCondition(current, part) ==
    CASE current.k = "dict" -> "missing key"
      [] current.k = "list" /\ ~IsIntSegment(part) -> "non-integer segment"
      [] current.k = "list" -> "index out of bounds"
      [] OTHER -> "unresolvable segment"

\* The error kind of each failure condition, on the plainest call that meets it.
KindOf(condition) ==
    CASE condition = "missing key" -> resolve_path(DictVal(<< >>, << >>), Path(<<"a">>)).exc
      [] condition = "non-integer segment" -> resolve_path(ListVal(<< >>), Path(<<"a">>)).exc
      [] condition = "index out of bounds" -> resolve_path(ListVal(<< >>), Path(<<"0">>)).exc
      [] condition = "unresolvable segment" -> resolve_path(StrVal("K"), Path(<<"a">>)).exc

FailureConditions ==
    {"missing key", "non-integer segment", "index out of bounds", "unresolvable segment"}

\* Violated by a segment that is no integer on a sequence: KeyError, the kind
\* of a missing key.
DistinctErrorKinds ==
    (last.op = "resolve_path" /\ last.exc # "None") =>
        LET at == FailsAt(last.arg, last.path.parts)
            condition == FailureCondition(at.current, at.part)
        IN  /\ last.exc = KindOf(condition)
            /\ \A other \in FailureConditions \ {condition} : last.exc # KindOf(other)
            /\ condition = "index out of bounds" => last.exc = "IndexError"

\* The half that holds: an index out of range, and nothing else, gives IndexError.
OutOfBoundsIsIndexError ==
    (last.op = "resolve_path" /\ last.exc # "None") =>
        LET at == FailsAt(last.arg, last.path.parts)
        IN  FailureCondition(at.current, at.part) = "index out of bounds"
               <=> last.exc = "IndexError"

(***************************************************************************)
(* C19.  isEqual, isGreaterThan and isLessThan compare the positions of    *)
(* the two resolved operands in the rank hierarchy of the first declared   *)
(* deck type when str() of both is in that hierarchy, stringified, and the *)
(* resolved values themselves in every other case.  With the hierarchy     *)
(* 2, 3, 10, J, Q, K, A: isGreaterThan("K", "2") and isEqual("10", 10)     *)
(* are true.                                                               *)
(***************************************************************************)
\* The stringified rank hierarchy of the first declared deck type.
FirstLadder ==
    IF cgml_definition.deck_types = << >> THEN << >>
    ELSE [n \in 1..Len(cgml_definition.deck_types[1].rank_hierarchy) |->
             StrOf(cgml_definition.deck_types[1].rank_hierarchy[n])]

OnLadder(v) == \E n \in 1..Len(FirstLadder) : FirstLadder[n] = StrOf(v)

\* The 0-based position of str(v) in the hierarchy.
Position(v) ==
    (CHOOSE n \in 1..Len(FirstLadder) :
        /\ FirstLadder[n] = StrOf(v)
        /\ \A m \in 1..(n - 1) : FirstLadder[m] # StrOf(v)) - 1

\* The last call compared two values.
ComparedValues ==
    /\ last.op \in {"evaluate_condition", "resolve_operand"}
    /\ IsComparison(last.arg)
    /\ \A i \in 1..2 : Compares(last.arg)[i].keys = {"value"}

RankAwareComparison ==
    ComparedValues =>
        LET left == Compares(last.arg)[1].value
            right == Compares(last.arg)[2].value
            expected == IF OnLadder(left) /\ OnLadder(right)
                        THEN Compared(<<IntVal(Position(left)), IntVal(Position(right))>>,
                                      Comparison(last.arg))
                        ELSE Compared(<<left, right>>, Comparison(last.arg))
        IN  /\ last.exc = expected.exc
            /\ last.exc = "None" => last.val = expected.val
            /\ (FirstLadder = RankLadder /\ StrOf(left) = "K" /\ StrOf(right) = "2"
                  /\ Comparison(last.arg) = "isGreaterThan") => last.val = BoolVal(TRUE)
            /\ (FirstLadder = RankLadder /\ StrOf(left) = "10" /\ StrOf(right) = "10"
                  /\ Comparison(last.arg) = "isEqual") => last.val = BoolVal(TRUE)

\* isEqual("10", 10) on the hierarchy 2, 3, 10, J, Q, K, A is true.
RankAwareComparisonWitness ==
    /\ last.op = "evaluate_condition"
    /\ FirstLadder = RankLadder
    /\ last.arg = IsEqual(ValueOperand(StrVal("10")), ValueOperand(IntVal(10)))
    /\ last.exc = "None"
    /\ last.val = BoolVal(TRUE)

\* isGreaterThan("K", "2") is true on that hierarchy, and false where the
\* first declared deck type ranks K below 2.
RankOrderWitness ==
    /\ last.op = "evaluate_condition"
    /\ last.arg = IsGreaterThan(ValueOperand(StrVal("K")), ValueOperand(StrVal("2")))
    /\ Len(cgml_definition.deck_types) = 2
    /\ last.val = BoolVal(FALSE)

\* A comparison of the values themselves that raises: "K" < 5.
RawComparisonWitness ==
    /\ last.op = "resolve_operand"
    /\ last.arg.keys = {"isLessThan"}
    /\ last.arg.isLessThan = <<ValueOperand(StrVal("K")), ValueOperand(IntVal(5))>>
    /\ last.exc = "TypeError"

(***************************************************************************)
(* C20.  A node that has none of the keys value, path, ref, isEqual,       *)
(* isGreaterThan, isLessThan, and, or, not, max, min, sum, count is a hard *)
(* error: evaluate_condition and resolve_operand raise for it and return   *)
(* no default value.                                                       *)
(***************************************************************************)
RecognizedKeys ==
    {"value", "path", "ref", "isEqual", "isGreaterThan", "isLessThan", "and_", "or_", "not_",
     "max_", "min_", "sum_", "count"}

\* Violated: evaluate_condition returns False and resolve_operand returns
\* the operand itself.
UnrecognizedNodeRaises ==
    (/\ last.op \in {"evaluate_condition", "resolve_operand"}
     /\ last.arg.cls \in {"Condition", "Operand"}
     /\ last.arg.keys \cap RecognizedKeys = {})
    => last.exc # "None"

(***************************************************************************)
(* C21.  get_legal_actions returns, in declaration order, one entry for    *)
(* each rule whose trigger is "on.phase.<current phase>" and whose         *)
(* condition is absent or true, and no other entry; with no current phase  *)
(* (no phases, or the phase index out of range) it returns the empty list. *)
(***************************************************************************)
Phase == current_phase(cgml_definition.flow, game_state, phase_idx)

\* The rules of the phase `phase` whose condition is absent or true, in
\* declaration order.
RulesOf(phase) ==
    SelectSeq([i \in 1..Len(cgml_definition.rules) |-> i],
              LAMBDA i :
                 /\ cgml_definition.rules[i].trigger = <<"on", "phase", phase>>
                 /\ \/ cgml_definition.rules[i].condition.cls = "None"
                    \/ Truthy(evaluate_condition(cgml_definition,
                                                 cgml_definition.rules[i].condition,
                                                 game_state, << >>).val))

\* Violated with no current phase and a rule whose trigger is "on.phase.None".
LegalActionsOfPhase ==
    (pc = "loop" /\ Legal.exc = "None") =>
        Legal.legal = IF Phase = PyNone THEN << >> ELSE RulesOf(Phase)

\* The same while there is a current phase.
LegalActionsOfCurrentPhase ==
    (pc = "loop" /\ Legal.exc = "None" /\ Phase # PyNone) => Legal.legal = RulesOf(Phase)

(***************************************************************************)
(* C22.  In run_setup_phase a DEAL_ALL whose from_deck is the of_deck of   *)
(* no shared and no per-player zone raises: setup stops at that action,    *)
(* which moves no card, and no later setup action is performed.            *)
(***************************************************************************)
NextSetupAction == cgml_definition.setup[setup_idx]

\* No zone of the definition is of the deck `name`.
NoZoneOfDeck(name) ==
    \A ref \in ZoneRefSet(cgml_definition, player_count) :
       ZoneOfDeck(cgml_definition, ref) # name

DealAllWithoutDeckZoneAborts ==
    [][/\ (/\ pc = "setup"
           /\ setup_idx <= Len(cgml_definition.setup)
           /\ NextSetupAction.action = "DEAL_ALL"
           /\ NoZoneOfDeck(NextSetupAction.from_deck)) =>
             (/\ pc' = "raised"
              /\ last'.exc = "RuntimeError"
              /\ game_state' = game_state)
        /\ ((pc = "raised" /\ last.step = "setup") => UNCHANGED vars)]_vars

\* Setup stopped at a DEAL_ALL without a deck zone, after a move had put a
\* card on the pile and with a setup action still to come.
DealAllWithoutDeckZoneAbortsWitness ==
    /\ pc = "raised"
    /\ last.step = "setup"
    /\ last.exc = "RuntimeError"
    /\ setup_idx = 3
    /\ setup_idx <= Len(cgml_definition.setup)
    /\ cgml_definition.setup[2].action = "DEAL_ALL"
    /\ Len(Cards(game_state, ZoneRef(NoOwner, "pile"))) = 1

(***************************************************************************)
(* C23.  move_all_cards(from, to) returns for every pair of zones, the     *)
(* same zone given twice included; from.cards is then empty and to.cards   *)
(* is its previous cards followed by from's cards in their order.          *)
(***************************************************************************)
MoveAllReturned ==
    /\ last.exc = "None"
    /\ Cards(game_state, last.from_zone) = << >>
    /\ \/ /\ last.from_zone # last.to_zone
          /\ Cards(game_state, last.to_zone) =
                Cards(last.before, last.to_zone) \o Cards(last.before, last.from_zone)
       \/ /\ last.from_zone = last.to_zone
          /\ Cards(last.before, last.from_zone) = << >>

MoveAllTerminates == last.op = "move_all_cards" => MoveAllReturned

\* The same call on two different zones.
MoveAllTerminatesOnDistinctZones ==
    (last.op = "move_all_cards" /\ last.from_zone # last.to_zone) => MoveAllReturned

(***************************************************************************)
(* C24.  On a sequence of length n resolve_path steps only into a segment  *)
(* that parses as an integer i with 0 <= i < n, giving element i; any      *)
(* other segment (no integer, i >= n, or negative such as "-1") makes the  *)
(* resolution fail and gives no element.                                   *)
(***************************************************************************)
\* The steps the walk of `parts` from `current` takes on a sequence.
RECURSIVE SequenceSteps(_, _)
SequenceSteps(current, parts) ==
    IF parts = << >> THEN {}
    ELSE LET step == ResolveStep(current, Head(parts))
             here == IF current.k = "list"
                     THEN {[current |-> current, part |-> Head(parts), step |-> step]}
                     ELSE {}
         IN  IF step.exc # "None" THEN here
             ELSE here \cup SequenceSteps(step.val, Tail(parts))

StepsOfCall ==
    IF last.op = "resolve_path" /\ ~last.path.is_none
    THEN SequenceSteps(last.arg, last.path.parts)
    ELSE {}

InRange(s) ==
    /\ IsIntSegment(s.part)
    /\ 0 <= IntOf(s.part)
    /\ IntOf(s.part) < Len(s.current.items)

\* Violated by "-1" on a non-empty sequence, which gives the last element.
SequenceIndexInRange ==
    \A s \in StepsOfCall :
       IF InRange(s)
       THEN s.step.exc = "None" /\ s.step.val = s.current.items[IntOf(s.part) + 1]
       ELSE s.step.exc # "None" /\ last.exc # "None"

\* The same without the negative segments.
SequenceIndexInRangeFromZero ==
    \A s \in StepsOfCall :
       (IsIntSegment(s.part) => IntOf(s.part) >= 0) =>
          IF InRange(s)
          THEN s.step.exc = "None" /\ s.step.val = s.current.items[IntOf(s.part) + 1]
          ELSE s.step.exc # "None" /\ last.exc # "None"

(***************************************************************************)
(* C25.  A node with exactly one of the fields value, path, ref, isEqual,  *)
(* isGreaterThan, isLessThan, and_, or_, not_, max_, min_, sum_, count     *)
(* gives the same result, or the same error, whether evaluate_condition    *)
(* interprets it as a Condition or resolve_operand as an Operand, on       *)
(* every game state and context.                                           *)
(***************************************************************************)
IsVariant(node) == node.cls \in {"Condition", "Operand"} /\ Cardinality(node.keys) = 1

\* The node of the recorded call as the other interpreter evaluates it.
AsOther ==
    IF last.op = "evaluate_condition"
    THEN resolve_operand(cgml_definition, [last.arg EXCEPT !.cls = "Operand"],
                         last.before, Contexts[last.context])
    ELSE evaluate_condition(cgml_definition, [last.arg EXCEPT !.cls = "Condition"],
                            last.before, Contexts[last.context])

ConditionAndOperandAgree ==
    (last.op \in {"evaluate_condition", "resolve_operand"} /\ IsVariant(last.arg)) =>
        /\ AsOther.exc = last.exc
        /\ last.exc = "None" => AsOther.val = last.val

\* A value node that is no boolean and evaluates, as a condition, to itself.
ConditionAndOperandAgreeWitness ==
    /\ last.op = "evaluate_condition"
    /\ last.arg.cls = "Condition"
    /\ last.arg.keys = {"value"}
    /\ last.exc = "None"
    /\ last.val = IntVal(0)

(***************************************************************************)
(* C26.  At the start of every iteration of run, with at least one player, *)
(* 0 <= current_player_idx < len(players); phase_idx is 0 when the current *)
(* state has no phases or is not declared, and 0 <= phase_idx < the number *)
(* of its phases otherwise; from the initial state and after any effects,  *)
(* transitions and phase advances.                                         *)
(***************************************************************************)
PhasesHere == get_phases_for_state(cgml_definition.flow, game_state.current_state)

IndexesInRange ==
    (pc = "loop" /\ player_count >= 1) =>
        /\ 0 <= current_player_idx
        /\ current_player_idx < Cardinality(DOMAIN game_state.players)
        /\ PhasesHere = << >> => phase_idx = 0
        /\ PhasesHere # << >> => (0 <= phase_idx /\ phase_idx < Len(PhasesHere))

\* An iteration starts after the phase index wrapped from the last phase of a
\* state and the turn passed from the last player to the first.
IndexesInRangeWitness ==
    /\ pc = "loop"
    /\ player_count >= 2
    /\ last.step = "run"
    /\ last.turned
    /\ last.prev_phase = Len(PhasesHere) - 1
    /\ last.prev_phase > 0
    /\ last.prev_player = player_count - 1
    /\ phase_idx = 0
    /\ current_player_idx = 0

\* An iteration starts in a state without phases that an effect or a
\* transition entered from a later phase of the state before.
IndexesResetWitness ==
    /\ pc = "loop"
    /\ last.step = "run"
    /\ last.prev_phase > 0
    /\ last.prev_state # game_state.current_state
    /\ PhasesHere = << >>
    /\ phase_idx = 0

(***************************************************************************)
(* C27.  move_cards, move_all_cards when it returns, deal_cards,           *)
(* deal_all_cards and shuffle_zone, on any zones and with any count, keep  *)
(* the cards of all zones taken together: the same number of occurrences   *)
(* of every card over the shared and the players' zones, none created,     *)
(* dropped or duplicated; and a zone that is neither source nor            *)
(* destination keeps its sequence.                                         *)
(***************************************************************************)
\* The cards of the zones `refs`, one zone after the other.
RECURSIVE CardsOf(_, _)
CardsOf(gs, refs) ==
    IF refs = << >> THEN << >> ELSE Cards(gs, Head(refs)) \o CardsOf(gs, Tail(refs))

AllCards(gs) == CardsOf(gs, AllZoneRefs(cgml_definition, player_count))

\* The zones the recorded call names as source or destination.
NamedZones ==
    IF last.op \in {"deal_cards", "deal_all_cards"}
    THEN {last.from_zone}
         \cup {ref \in Refs : ref.owner # NoOwner /\ ref.name = last.to_zone_name}
    ELSE {last.from_zone, last.to_zone}

CardsConserved ==
    (last.op # "None" /\ last.exc # "NoReturn") =>
        /\ SameCards(AllCards(last.before), AllCards(game_state))
        /\ \A ref \in Refs \ NamedZones : Cards(game_state, ref) = Cards(last.before, ref)

\* A deal that gave cards to two players or more while another zone held
\* cards.
CardsConservedWitness ==
    /\ last.op = "deal_cards"
    /\ last.exc = "None"
    /\ player_count >= 2
    /\ Len(Cards(game_state, ZoneRef(0, "hand"))) > Len(Cards(last.before, ZoneRef(0, "hand")))
    /\ Len(Cards(game_state, ZoneRef(1, "hand"))) > Len(Cards(last.before, ZoneRef(1, "hand")))
    /\ \E ref \in Refs \ NamedZones : Cards(game_state, ref) # << >>

\* A move of two cards or more between two zones.
CardsMovedWitness ==
    /\ last.op = "move_cards"
    /\ last.from_zone # last.to_zone
    /\ Len(Cards(game_state, last.to_zone)) >= Len(Cards(last.before, last.to_zone)) + 2
====
